---- MODULE Spec2Model ----
(***************************************************************************)
(* A model of the scraping engine of app.py: the field normalizer, the     *)
(* pattern library, the site adapters, the dispatcher in run_scrape_job,   *)
(* the configuration loader and the run-once batch of schedule_all_jobs.   *)
(*                                                                         *)
(* Text is a TLA+ string; Python's str operations and the regular          *)
(* expressions of the source are evaluated character by character.  Two    *)
(* characters of the source's patterns are not ASCII and are written with  *)
(* stand-ins that occur nowhere else in the model's texts:                 *)
(*     EN DASH (U+2013)  is written  "~"                                   *)
(*     EM DASH (U+2014)  is written  "^"                                   *)
(***************************************************************************)
EXTENDS Integers, Sequences, FiniteSets, TLC

VARIABLES
    pc,     \* where the run is: "start", "loop", "done", "aborted"
    inp,    \* the input of the run: a configuration file, a page entry, a text
    out,    \* what the run has produced so far
    pages,  \* schedule_all_jobs: the list it iterates
    idx,    \* schedule_all_jobs: the position in pages
    sheet,  \* the worksheet of the GoogleSheetLoader: its rows
    log     \* one record per page entry the loop has taken up

vars == <<pc, inp, out, pages, idx, sheet, log>>

RECURSIVE Call(_, _)

NA == "N/A"
\* Python's None, where a text is expected
None == "<None>"

-----------------------------------------------------------------------------
(* Characters and Python's str methods                                     *)

Ch(s, i) == SubSeq(s, i, i)
\* s[:n]
Slice(s, n) == IF Len(s) <= n THEN s ELSE SubSeq(s, 1, n)

UpperChars == "ABCDEFGHIJKLMNOPQRSTUVWXYZ"
LowerChars == "abcdefghijklmnopqrstuvwxyz"
DigitChars == "0123456789"

CharsOf(s) == {Ch(s, i) : i \in 1..Len(s)}

DigitSet == CharsOf(DigitChars)
UpperSet == CharsOf(UpperChars)
LowerSet == CharsOf(LowerChars)
WordSet  == DigitSet \cup UpperSet \cup LowerSet \cup {"_"}

IsDigit(c) == c \in DigitSet
IsUpper(c) == c \in UpperSet
IsLower(c) == c \in LowerSet
\* Python's str.isspace / the pattern class \s, on the characters of the model
IsSpace(c) == c \in {" ", "\t", "\n", "\r", "\f"}
\* the pattern class \w
IsWord(c) == c \in WordSet

LowerCh(c) ==
    IF IsUpper(c)
    THEN Ch(LowerChars, CHOOSE i \in 1..Len(UpperChars) : Ch(UpperChars, i) = c)
    ELSE c

UpperCh(c) ==
    IF IsLower(c)
    THEN Ch(UpperChars, CHOOSE i \in 1..Len(LowerChars) : Ch(LowerChars, i) = c)
    ELSE c

RECURSIVE LowerRange(_, _, _)
\* the characters lo..hi of s, each lower-cased
LowerRange(s, lo, hi) ==
    IF lo > hi THEN ""
    ELSE IF lo = hi THEN LowerCh(Ch(s, lo))
    ELSE LET mid == (lo + hi) \div 2
         IN  LowerRange(s, lo, mid) \o LowerRange(s, mid + 1, hi)

\* str.lower()
lower(s) == LowerRange(s, 1, Len(s))

\* str.capitalize(): first character upper-cased, the rest lower-cased
capitalize(s) == IF s = "" THEN "" ELSE UpperCh(Head(s)) \o lower(Tail(s))

\* str.strip(): surrounding whitespace removed
strip(s) ==
    LET keep == {i \in 1..Len(s) : ~IsSpace(Ch(s, i))}
        Min(S) == CHOOSE x \in S : \A y \in S : x <= y
        Max(S) == CHOOSE x \in S : \A y \in S : x >= y
    IN  IF keep = {} THEN "" ELSE SubSeq(s, Min(keep), Max(keep))

\* `sub in s`
Contains(s, sub) ==
    \E i \in 1..(Len(s) - Len(sub) + 1) : SubSeq(s, i, i + Len(sub) - 1) = sub

\* s.endswith(sub)
EndsWith(s, sub) ==
    Len(s) >= Len(sub) /\ SubSeq(s, Len(s) - Len(sub) + 1, Len(s)) = sub

RECURSIVE Join(_, _)
\* sep.join(parts)
Join(parts, sep) ==
    IF parts = <<>> THEN ""
    ELSE IF Len(parts) = 1 THEN parts[1]
    ELSE parts[1] \o sep \o Join(Tail(parts), sep)

\* list(dict.fromkeys(xs)): first occurrences, in order
Uniq(xs) ==
    LET keep   == {i \in DOMAIN xs : \A j \in 1..(i - 1) : xs[j] /= xs[i]}
        nth(n) == CHOOSE i \in keep : Cardinality({j \in keep : j <= i}) = n
    IN  [n \in 1..Cardinality(keep) |-> xs[nth(n)]]

-----------------------------------------------------------------------------
(* Python's re, as a backtracking matcher.  A pattern is a tree; M gives   *)
(* the positions at which a match of the pattern starting at position i    *)
(* can end, in the order in which backtracking tries them, so its head is  *)
(* the match re returns.                                                   *)

Lit(str)         == [t |-> "lit", str |-> str]
In(cs)           == [t |-> "in", cs |-> cs]
NotIn(cs)        == [t |-> "notin", cs |-> cs]
Cat(rs)          == [t |-> "cat", rs |-> rs]
Alt(rs)          == [t |-> "alt", rs |-> rs]
\* r{lo,hi} and r{lo,hi}?: "run" when r is a character class, "opt" for r?
Rep(r, lo, hi)   ==
    [t |-> IF r.t \in {"in", "notin"} THEN "run"
           ELSE IF lo = 0 /\ hi = 1 THEN "opt" ELSE "rep",
     r |-> r, lo |-> lo, hi |-> hi, greedy |-> TRUE]
Lazy(r, lo, hi)  ==
    [t |-> IF r.t \in {"in", "notin"} THEN "run" ELSE "rep",
     r |-> r, lo |-> lo, hi |-> hi, greedy |-> FALSE]
Inf              == 0 - 1
Opt(r)           == Rep(r, 0, 1)
Star(r)          == Rep(r, 0, Inf)
Plus(r)          == Rep(r, 1, Inf)
WordB            == [t |-> "wb"]
AtEnd            == [t |-> "end"]
SpaceSet         == {" ", "\t", "\n", "\r", "\f"}
Digit            == In(DigitSet)
NonDigit         == NotIn(DigitSet)
Space            == In(SpaceSet)
AnyCh            == NotIn({})
EnDash           == "~"
EmDash           == "^"

RECURSIVE M(_, _, _, _)
RECURSIVE MAll(_, _, _, _, _, _)
RECURSIVE MCat(_, _, _, _, _)
RECURSIVE MAlt(_, _, _, _, _, _)
RECURSIVE MRep(_, _, _, _, _, _, _)
RECURSIVE MRepAll(_, _, _, _, _, _, _, _, _)

\* the matches of r from each of the positions from[a..b], in order
MAll(r, s, from, a, b, ic) ==
    IF a = b THEN M(r, s, from[a], ic)
    ELSE IF a > b THEN <<>>
    ELSE MAll(r, s, from, a, (a + b) \div 2, ic)
            \o MAll(r, s, from, (a + b) \div 2 + 1, b, ic)

\* the elements rs[k..] of a concatenation, matched one after the other
MCat(rs, k, s, from, ic) ==
    IF k > Len(rs) \/ from = <<>> THEN from
    ELSE MCat(rs, k + 1, s, MAll(rs[k], s, from, 1, Len(from), ic), ic)

\* the alternatives rs[a..b], the first one first
MAlt(rs, a, b, s, i, ic) ==
    IF a = b THEN M(rs[a], s, i, ic)
    ELSE IF a > b THEN <<>>
    ELSE MAlt(rs, a, (a + b) \div 2, s, i, ic)
            \o MAlt(rs, (a + b) \div 2 + 1, b, s, i, ic)

MRepAll(r, s, from, a, b, lo, hi, greedy, ic) ==
    IF a = b THEN MRep(r, s, from[a], lo, hi, greedy, ic)
    ELSE IF a > b THEN <<>>
    ELSE MRepAll(r, s, from, a, (a + b) \div 2, lo, hi, greedy, ic)
            \o MRepAll(r, s, from, (a + b) \div 2 + 1, b, lo, hi, greedy, ic)

\* whether the character at k is in the class r ([...] or [^...])
ClassHit(r, s, k, ic) ==
    /\ k <= Len(s)
    /\ IF r.t = "in"
       THEN \/ Ch(s, k) \in r.cs
            \/ ic /\ (LowerCh(Ch(s, k)) \in r.cs \/ UpperCh(Ch(s, k)) \in r.cs)
       ELSE Ch(s, k) \notin r.cs

\* a repeated class: the run of its characters from i, longest first when
\* greedy, shortest first when lazy
RepClass(r, s, i, lo, hi, greedy, ic) ==
    LET last == IF hi >= 0 /\ i + hi <= Len(s) THEN i + hi ELSE Len(s) + 1
        \* the first position of i..last not in the class, or last
        stop == CHOOSE k \in i..last :
                    /\ k = last \/ ~ClassHit(r, s, k, ic)
                    /\ \A j \in i..(k - 1) : ClassHit(r, s, j, ic)
        top  == stop - i
    IN  IF top < lo THEN <<>>
        ELSE IF greedy THEN [k \in 1..(top - lo + 1) |-> i + top - (k - 1)]
        ELSE [k \in 1..(top - lo + 1) |-> i + lo + (k - 1)]

\* r{lo,hi}: one more repetition (never an empty one) before stopping when
\* greedy, stopping first when lazy
MRep(r, s, i, lo, hi, greedy, ic) ==
    IF hi = 0 THEN (IF lo <= 0 THEN <<i>> ELSE <<>>)
    ELSE LET once == SelectSeq(M(r, s, i, ic), LAMBDA e : e /= i)
             more == MRepAll(r, s, once, 1, Len(once), IF lo > 0 THEN lo - 1 ELSE 0,
                             IF hi > 0 THEN hi - 1 ELSE hi, greedy, ic)
             stop == IF lo <= 0 THEN <<i>> ELSE <<>>
         IN  IF greedy THEN more \o stop ELSE stop \o more

\* whether the literal str stands at position i of s
LitAt(str, s, i, ic) ==
    /\ i + Len(str) - 1 <= Len(s)
    /\ IF ic
       THEN \A j \in 1..Len(str) : LowerCh(Ch(s, i + j - 1)) = LowerCh(Ch(str, j))
       ELSE SubSeq(s, i, i + Len(str) - 1) = str

\* \w at position k of s
WordAt(s, k) == k >= 1 /\ k <= Len(s) /\ IsWord(Ch(s, k))

M(r, s, i, ic) ==
    CASE r.t = "lit" -> IF LitAt(r.str, s, i, ic) THEN <<i + Len(r.str)>> ELSE <<>>
      [] r.t \in {"in", "notin"} ->
            IF ClassHit(r, s, i, ic) THEN <<i + 1>> ELSE <<>>
      [] r.t = "cat" -> MCat(r.rs, 1, s, <<i>>, ic)
      [] r.t = "alt" -> MAlt(r.rs, 1, Len(r.rs), s, i, ic)
      [] r.t = "opt" -> SelectSeq(M(r.r, s, i, ic), LAMBDA e : e /= i) \o <<i>>
      [] r.t = "run" -> RepClass(r.r, s, i, r.lo, r.hi, r.greedy, ic)
      [] r.t = "rep" -> MRep(r.r, s, i, r.lo, r.hi, r.greedy, ic)
      [] r.t = "wb"  -> IF WordAt(s, i - 1) /= WordAt(s, i) THEN <<i>> ELSE <<>>
      [] r.t = "end" ->
            IF i = Len(s) + 1 \/ (i = Len(s) /\ Ch(s, i) = "\n")
            THEN <<i>> ELSE <<>>

NoMatch == [found |-> FALSE, start |-> 0, end |-> 0]

\* the positions of s from which r matches
Hits(r, s, ic) == {k \in 1..(Len(s) + 1) : M(r, s, k, ic) /= <<>>}

\* the match from the least of the positions `hits` that is at or after i
MatchFrom(r, s, i, ic, hits) ==
    IF \A k \in hits : k < i THEN NoMatch
    ELSE LET k == CHOOSE x \in hits : x >= i /\ \A y \in hits : y >= i => x <= y
         IN  [found |-> TRUE, start |-> k, end |-> Head(M(r, s, k, ic))]

\* pattern.search(s, pos): the leftmost match at or after position i
SearchFrom(r, s, i, ic) == MatchFrom(r, s, i, ic, Hits(r, s, ic))

Search(r, s, ic) == SearchFrom(r, s, 1, ic)

\* m.group(0)
Group0(s, m) == SubSeq(s, m.start, m.end - 1)

RECURSIVE FindIterFrom(_, _, _, _, _)
\* [m.group(0) for m in pattern.finditer(s)]
FindIterFrom(r, s, i, ic, hits) ==
    LET m == MatchFrom(r, s, i, ic, hits)
    IN  IF ~m.found THEN <<>>
        ELSE <<Group0(s, m)>>
                \o FindIterFrom(r, s, IF m.end = m.start THEN m.end + 1 ELSE m.end,
                                ic, hits)

FindIter(r, s, ic) == FindIterFrom(r, s, 1, ic, Hits(r, s, ic))

\* A pattern pre(grp)post: the span of the group in the leftmost match.
RECURSIVE PickGroup(_, _, _, _, _)
PickGroup(grp, post, s, from, ic) ==
    IF from = <<>> THEN NoMatch
    ELSE LET ok == SelectSeq(M(grp, s, Head(from), ic),
                             LAMBDA e : M(post, s, e, ic) /= <<>>)
         IN  IF ok /= <<>> THEN [found |-> TRUE, start |-> Head(from), end |-> Head(ok)]
             ELSE PickGroup(grp, post, s, Tail(from), ic)

\* the group of the leftmost match
SearchGroup(pre, grp, post, s, ic) ==
    LET hits == {k \in 1..(Len(s) + 1) :
                    PickGroup(grp, post, s, M(pre, s, k, ic), ic).found}
    IN  IF hits = {} THEN NoMatch
        ELSE PickGroup(grp, post, s,
                       M(pre, s, CHOOSE x \in hits : \A y \in hits : x <= y, ic), ic)

-----------------------------------------------------------------------------
(* The pattern library                                                     *)

Words(ws) == Alt([k \in 1..Len(ws) |-> Lit(ws[k])])
Dashes    == {"-", EnDash, EmDash}
Meridiem  == Words(<<"am", "pm", "AM", "PM">>)

WEEKDAY_WORDS ==
    Words(<<"monday", "tuesday", "wednesday", "thursday", "friday", "saturday",
            "sunday", "mon", "tue", "wed", "thu", "thur", "fri", "sat", "sun",
            "weekend", "weekends">>)

\* The six string literals of AGE_PATTERNS; the list holds five patterns, the
\* fourth and fifth literals being adjacent with no comma between them.
AgeGrade ==
    Cat(<<WordB, Words(<<"Grade", "Grades", "PreK", "Pre-K">>), Star(Space),
          Plus(Digit),
          Opt(Cat(<<Star(Space), In(Dashes), Star(Space), Plus(Digit)>>)),
          Star(Space),
          Opt(Cat(<<Lit("-"), Star(Space), Plus(Digit)>>)), WordB>>)

AgeAges ==
    Cat(<<WordB,
          Alt(<<Cat(<<Lit("age"), Opt(Lit("s"))>>),
                Cat(<<Lit("age"), Star(In({":", "-"} \cup SpaceSet))>>)>>),
          Star(Space), Rep(Digit, 1, 2), Star(Space),
          Opt(Cat(<<Plus(In({"-", EnDash, "t", "o"})), Star(Space), Rep(Digit, 1, 2)>>)),
          Star(Space),
          Opt(Alt(<<Cat(<<Lit("yr"), Opt(Lit("s"))>>), Lit("years"), Lit("yo"),
                    Cat(<<Lit("mo"), Opt(Lit("s"))>>), Lit("months")>>)),
          WordB>>)

AgeUnit ==
    Cat(<<WordB, Rep(Digit, 1, 2), Star(Space),
          Words(<<"years", "yrs", "yr", "yo", "months", "mos">>), WordB>>)

AgeKeywordK ==
    Cat(<<WordB,
          Alt(<<Lit("infant"), Lit("toddler"), Lit("preschool"), Lit("pre-school"),
                Lit("baby"), Cat(<<Lit("kid"), Opt(Lit("s"))>>), Lit("children"),
                Lit("teen"), Lit("adult")>>),
          WordB, WordB, In({"K", "k"}), Star(Space), Opt(In({"-", EnDash})),
          Star(Space), Star(Digit), Opt(Words(<<"st", "nd", "rd", "th">>)), WordB>>)

AgeGradeN == Cat(<<WordB, Lit("Grade"), Star(Space), Plus(Digit), WordB>>)

AGE_PATTERNS == <<AgeGrade, AgeAges, AgeUnit, AgeKeywordK, AgeGradeN>>

ClockHM == Cat(<<Rep(Digit, 1, 2), In({":", "."}), Rep(Digit, 2, 2)>>)

TIME_PATTERNS ==
    << Cat(<<ClockHM, Star(Space), Opt(Meridiem),
             Opt(Cat(<<Star(Space), In({EnDash, "-"}), Star(Space), ClockHM,
                       Star(Space), Opt(Meridiem)>>))>>),
       Cat(<<Rep(Digit, 1, 2), Star(Space), Meridiem, WordB>>),
       Cat(<<ClockHM, WordB>>) >>

\* re.compile("|".join(...), re.I)
AGE_REGEX  == Alt(AGE_PATTERNS)
TIME_REGEX == Alt(TIME_PATTERNS)
DAY_REGEX  == WEEKDAY_WORDS

\* CLASS_SIZE_REGEX is <prefix>(\d{1,3})\b: the prefix, the group, the rest
ClassSizePre ==
    Cat(<<WordB,
          Alt(<<Lit("class size"), Lit("capacity"),
                Cat(<<Lit("max"), Opt(Lit("imum")),
                      Opt(Cat(<<Lit(" seat"), Opt(Lit("s"))>>))>>),
                Cat(<<Lit("limit"), Opt(Lit("ed"))>>),
                Cat(<<Lit("spots"), Opt(Lit(" available"))>>)>>),
          Star(In({":"} \cup SpaceSet)), Lazy(NonDigit, 0, Inf)>>)
ClassSizeGrp  == Rep(Digit, 1, 3)
ClassSizePost == WordB

DURATION_REGEX ==
    Cat(<<Rep(Digit, 1, 3), Star(Space),
          Alt(<<Cat(<<Lit("min"), Opt(Lit("ute")), Opt(Lit("s"))>>),
                Cat(<<Lit("min"), Opt(Lit("s"))>>),
                Cat(<<Lit("minute"), Opt(Lit("s"))>>),
                Lit("hr"), Lit("hrs"), Lit("hour"), Lit("hours")>>)>>)

ADDRESS_SELECTORS ==
    <<"address", "addr", "location", "studio", "venue", "directions",
      "location-name", "map">>

\* re.sub(r'\s+', ' ', text)
RECURSIVE CollapseRange(_, _, _)
CollapseRange(s, lo, hi) ==
    IF lo > hi THEN ""
    ELSE IF lo = hi
         THEN IF ~IsSpace(Ch(s, lo)) THEN Ch(s, lo)
              ELSE IF lo > 1 /\ IsSpace(Ch(s, lo - 1)) THEN "" ELSE " "
    ELSE LET mid == (lo + hi) \div 2
         IN  CollapseRange(s, lo, mid) \o CollapseRange(s, mid + 1, hi)

CollapseSpace(s) == CollapseRange(s, 1, Len(s))

-----------------------------------------------------------------------------
(* Field heuristics                                                        *)

ensure_field(val) ==
    IF val = None THEN NA
    ELSE LET s == strip(val) IN IF s /= "" THEN s ELSE NA

RECURSIVE DaysFound(_, _)
\* the loop of extract_age_day_time_from_text over DAY_REGEX.finditer
DaysFound(ms, found) ==
    IF ms = <<>> THEN found
    ELSE LET w == strip(Head(ms))
         IN  DaysFound(Tail(ms),
                 IF \E k \in 1..Len(found) : lower(found[k]) = lower(w)
                 THEN found ELSE Append(found, capitalize(w)))

extract_age_day_time_from_text(text) ==
    IF text = "" THEN [age |-> NA, days |-> NA, times |-> NA]
    ELSE LET txt == CollapseSpace(text)
             am  == Call("Search", <<AGE_REGEX, txt, TRUE>>)
             df  == DaysFound(Call("FindIter", <<DAY_REGEX, txt, TRUE>>), <<>>)
             tf  == [k \in DOMAIN Call("FindIter", <<TIME_REGEX, txt, TRUE>>) |->
                        strip(Call("FindIter", <<TIME_REGEX, txt, TRUE>>)[k])]
         IN  [age   |-> IF am.found THEN strip(Group0(txt, am)) ELSE NA,
              days  |-> IF df /= <<>> THEN Join(df, ", ") ELSE NA,
              times |-> IF tf /= <<>> THEN Join(Uniq(tf), ", ") ELSE NA]

-----------------------------------------------------------------------------
(* Numbers and clock times                                                 *)

DigitVal(c) == (CHOOSE i \in 1..Len(DigitChars) : Ch(DigitChars, i) = c) - 1

RECURSIVE ToInt(_)
\* int(ds) for a string of decimal digits
ToInt(ds) ==
    IF ds = "" THEN 0
    ELSE ToInt(SubSeq(ds, 1, Len(ds) - 1)) * 10 + DigitVal(Ch(ds, Len(ds)))

RECURSIVE ToStr(_)
\* str(n) for n >= 0
ToStr(n) ==
    IF n < 10 THEN Ch(DigitChars, n + 1)
    ELSE ToStr(n \div 10) \o Ch(DigitChars, (n % 10) + 1)

RECURSIVE Split(_, _, _, _)
\* re.split(r, s) for a pattern that matches no empty string
Split(r, s, from, last) ==
    LET m == SearchFrom(r, s, from, FALSE)
    IN  IF ~m.found \/ m.end = m.start THEN <<SubSeq(s, last, Len(s))>>
        ELSE <<SubSeq(s, last, m.start - 1)>> \o Call("Split", <<r, s, m.end, m.end>>)

MinutesPerDay == 24 * 60

\* dateutil's parser.parse(part, default=datetime(2000,1,1)) on the texts the
\* time patterns produce: H, H:MM, each with an optional meridiem.  The result
\* is in minutes after 2000-01-01 00:00; ok is FALSE where parse raises.
\*   H:MM, no meridiem   a 24-hour clock time
\*   H[:MM] am|pm        a 12-hour clock time (12 am is 0:00, 12 pm is 12:00)
\*   a bare number       a day of January 2000, or above 31 a year
ClockShape ==
    Cat(<<Rep(Digit, 1, 2), Opt(Cat(<<Lit(":"), Rep(Digit, 2, 2)>>)), Star(Space),
          Opt(Words(<<"am", "pm">>)), AtEnd>>)

dateparser_parse(part) ==
    LET t      == strip(part)
        fail   == [ok |-> FALSE, t |-> 0]
        hlen   == IF Len(t) >= 2 /\ IsDigit(Ch(t, 2)) THEN 2 ELSE 1
        hour   == ToInt(SubSeq(t, 1, hlen))
        hasMin == Len(t) > hlen /\ Ch(t, hlen + 1) = ":"
        minute == IF hasMin THEN ToInt(SubSeq(t, hlen + 2, hlen + 3)) ELSE 0
        mer    == IF Len(t) >= 2 THEN lower(SubSeq(t, Len(t) - 1, Len(t))) ELSE ""
    IN  IF M(ClockShape, t, 1, TRUE) = <<>> THEN fail
        ELSE IF minute > 59 THEN fail
        ELSE IF mer \in {"am", "pm"}
             THEN IF hour > 12 THEN fail
                  ELSE [ok |-> TRUE,
                        t  |-> 60 * (IF hour < 12 /\ mer = "pm" THEN hour + 12
                                     ELSE IF hour = 12 /\ mer = "am" THEN 0
                                     ELSE hour) + minute]
        ELSE IF hasMin
             THEN IF hour > 23 THEN fail ELSE [ok |-> TRUE, t |-> 60 * hour + minute]
        ELSE IF hour = 0 THEN fail
        ELSE IF hour <= 31 THEN [ok |-> TRUE, t |-> (hour - 1) * MinutesPerDay]
        ELSE [ok |-> TRUE, t |-> hour * 366 * MinutesPerDay]

\* the guard of parse_time_range_to_duration: (:|\s(?:am|pm))\s*[dash]\s*(\d{1,2})
RangeGate ==
    Cat(<<Alt(<<Lit(":"), Cat(<<Space, Words(<<"am", "pm">>)>>)>>), Star(Space),
          In(Dashes), Star(Space), Rep(Digit, 1, 2)>>)

\* the separator of parse_time_range_to_duration: \s*[dash]\s*|\s+to\s+
RangeSep ==
    Alt(<<Cat(<<Star(Space), In(Dashes), Star(Space)>>),
          Cat(<<Plus(Space), Lit("to"), Plus(Space)>>)>>)

parse_time_range_to_duration(timestr) ==
    IF timestr = "" \/ timestr = None \/ timestr = NA THEN NA
    ELSE IF ~Call("Search", <<RangeGate, timestr, TRUE>>).found THEN NA
    ELSE LET parts == Call("Split", <<RangeSep, timestr, 1, 1>>)
         IN  IF Len(parts) < 2 THEN NA
             ELSE LET p0   == Call("dateparser_parse", <<parts[1]>>)
                      p1   == Call("dateparser_parse", <<parts[2]>>)
                      t1   == IF p1.t < p0.t THEN p1.t + MinutesPerDay ELSE p1.t
                      mins == t1 - p0.t
                  IN  IF ~p0.ok \/ ~p1.ok THEN NA
                      ELSE IF mins <= 0 \/ mins > 6 * 60 THEN NA
                      ELSE IF mins < 60 THEN ToStr(mins) \o "m"
                      ELSE IF mins % 60 /= 0
                           THEN ToStr(mins \div 60) \o "h" \o ToStr(mins % 60) \o "m"
                           ELSE ToStr(mins \div 60) \o "h"

-----------------------------------------------------------------------------
(* The parsed page (BeautifulSoup).  A node is a tag with attributes and   *)
(* children, or a string; the string inside a script tag is a string of    *)
(* its own kind, which get_text() of an enclosing tag leaves out.  A       *)
(* script of type application/ld+json carries the value json.loads gives   *)
(* for its text.                                                           *)

JNone      == [jt |-> "none"]
JInvalid   == [jt |-> "invalid"]
JStr(x)    == [jt |-> "str", v |-> x]
JList(xs)  == [jt |-> "list", v |-> xs]
JDict(f)   == [jt |-> "dict", v |-> f]

Text(x)    == [name |-> "#text", id |-> "", cls |-> "", s |-> x, kids |-> <<>>, json |-> JNone]
El(name, id, cls, kids) ==
    [name |-> name, id |-> id, cls |-> cls, s |-> "", kids |-> kids, json |-> JNone]
Tag(name, kids) == El(name, "", "", kids)
\* <script type="application/ld+json"> whose text parses to j
LdJson(j)  ==
    [name |-> "script", id |-> "", cls |-> "", s |-> "",
     kids |-> <<[name |-> "#script", id |-> "", cls |-> "", s |-> "{}", kids |-> <<>>,
                 json |-> JNone]>>,
     json |-> j]
\* what fetch_html returns on failure: the empty string
EmptyHtml  == [name |-> "#empty", id |-> "", cls |-> "", s |-> "", kids |-> <<>>, json |-> JNone]
Soup(kids) == El("[document]", "", "", kids)

IsTag(n) == n.name \notin {"#text", "#script", "#empty"}

RECURSIVE Descendants(_)
RECURSIVE DescOfKids(_)
\* tag.descendants: every node below n, in document order
DescOfKids(ks) ==
    IF ks = <<>> THEN <<>>
    ELSE <<Head(ks)>> \o Descendants(Head(ks)) \o DescOfKids(Tail(ks))
Descendants(n) == DescOfKids(n.kids)

RECURSIVE NodeAt(_, _)
NodeAt(n, path) == IF path = <<>> THEN n ELSE NodeAt(n.kids[Head(path)], Tail(path))

RECURSIVE DescPaths(_, _)
RECURSIVE DescPathsOfKids(_, _, _)
DescPathsOfKids(n, path, k) ==
    IF k > Len(n.kids) THEN <<>>
    ELSE <<Append(path, k)>> \o DescPaths(n.kids[k], Append(path, k))
            \o DescPathsOfKids(n, path, k + 1)
\* the paths of the nodes below the node at `path`, in document order
DescPaths(n, path) == DescPathsOfKids(n, path, 1)

\* tag.get_text(" ", strip=True)
get_text(n) ==
    LET own  == IF n.name = "script" THEN "#script" ELSE "#text"
        strs == SelectSeq(Descendants(n), LAMBDA d : d.name = own /\ strip(d.s) /= "")
    IN  Join([k \in DOMAIN strs |-> strip(strs[k].s)], " ")

RECURSIVE string(_)
\* tag.string: the single string below the tag, or None
string(n) ==
    IF ~IsTag(n) THEN n.s
    ELSE IF Len(n.kids) /= 1 THEN None
    ELSE string(n.kids[1])

\* tag.find(names): the first tag below n with one of the names, or NoNode
NoNode == [name |-> "#none", id |-> "", cls |-> "", s |-> "", kids |-> <<>>, json |-> JNone]
First(ns) == IF ns = <<>> THEN NoNode ELSE Head(ns)
find_all(n, names) == SelectSeq(Descendants(n), LAMBDA d : d.name \in names)
find(n, names) == First(Call("find_all", <<n, names>>))
Found(n) == n.name /= "#none"

\* c is one of the classes of the class attribute cls
HasClass(cls, c) == Contains(" " \o cls \o " ", " " \o c \o " ")

\* select('tag.cls') over a list of (tag, class) alternatives; tag "" is any tag
select(n, alts) ==
    SelectSeq(Descendants(n),
              LAMBDA d : IsTag(d) /\ \E a \in alts :
                            /\ (a[1] = "" \/ d.name = a[1])
                            /\ HasClass(d.cls, a[2]))

\* select('[class*="sel"], [id*="sel"]')
select_attr_contains(n, sel) ==
    SelectSeq(Descendants(n),
              LAMBDA d : IsTag(d) /\ (Contains(d.cls, sel) \/ Contains(d.id, sel)))

RECURSIVE SplitLit(_, _)
\* s.split(sep)
SplitLit(s, sep) ==
    IF ~Contains(s, sep) THEN <<s>>
    ELSE LET i == CHOOSE k \in 1..Len(s) :
                    /\ SubSeq(s, k, k + Len(sep) - 1) = sep
                    /\ \A j \in 1..(k - 1) : SubSeq(s, j, j + Len(sep) - 1) /= sep
         IN  <<SubSeq(s, 1, i - 1)>> \o SplitLit(SubSeq(s, i + Len(sep), Len(s)), sep)

\* Python's truth value of a JSON value, and dict.get
Truthy(j) ==
    CASE j.jt = "str"  -> j.v /= ""
      [] j.jt = "list" -> j.v /= <<>>
      [] j.jt = "dict" -> DOMAIN j.v /= {}
      [] OTHER         -> FALSE
JGet(d, k) == IF k \in DOMAIN d.v THEN d.v[k] ELSE JNone
RECURSIVE FirstTruthy(_, _)
\* d.get(k1) or d.get(k2) or ... : the first truthy value, else the last one
FirstTruthy(d, ks) ==
    IF Len(ks) = 1 \/ Truthy(JGet(d, Head(ks))) THEN JGet(d, Head(ks))
    ELSE FirstTruthy(d, Tail(ks))

RECURSIVE JsonldExtend(_)
JsonldExtend(scripts) ==
    IF scripts = <<>> THEN <<>>
    ELSE LET parsed == Head(scripts).json
         IN  (CASE parsed.jt = "invalid" -> <<>>
                [] parsed.jt = "list"    -> parsed.v
                [] OTHER                 -> <<parsed>>) \o JsonldExtend(Tail(scripts))

_extract_jsonld_objects(soup) ==
    JsonldExtend(SelectSeq(Call("find_all", <<soup, {"script"}>>), LAMBDA d : d.json.jt /= "none"))

LocKeys == <<"streetAddress", "addressLocality", "postalCode", "addressRegion",
             "addressCountry", "name">>

\* ", ".join of the address parts of a location object ("" when it has none)
LocParts(loc) ==
    LET ks == SelectSeq(LocKeys, LAMBDA k : Truthy(JGet(loc, k)))
    IN  [i \in DOMAIN ks |-> JGet(loc, ks[i]).v]

RECURSIVE AddressBySelectors(_, _, _, _)
\* the loop over ADDRESS_SELECTORS: the first selector whose elements have text
AddressBySelectors(n, sels, cur, cut) ==
    IF sels = <<>> THEN cur
    ELSE LET found  == select_attr_contains(n, Head(sels))
             joined == Join([k \in DOMAIN found |-> Call("get_text", <<found[k]>>)], " ")
             addr   == strip(IF cut THEN Slice(joined, 300) ELSE joined)
         IN  IF found = <<>> THEN AddressBySelectors(n, Tail(sels), cur, cut)
             ELSE IF addr /= "" THEN addr
             ELSE AddressBySelectors(n, Tail(sels), addr, cut)

RECURSIVE AddressFromJsonld(_, _)
\* the loop over the linked-data objects: the first location found, else cur
AddressFromJsonld(objs, cur) ==
    IF objs = <<>> THEN cur
    ELSE LET obj == Head(objs)
             loc == IF obj.jt = "dict"
                    THEN FirstTruthy(obj, <<"location", "address", "location", "venue">>)
                    ELSE JNone
         IN  IF loc.jt = "dict" /\ LocParts(loc) /= <<>> THEN Join(LocParts(loc), ", ")
             ELSE IF loc.jt = "str" THEN loc.v
             ELSE AddressFromJsonld(Tail(objs), cur)

\* extract_size_length_address with the full document searched before the
\* linked data
extract_size_length_address_document_first(text, node, soup) ==
    LET txt  == IF text = None THEN "" ELSE text
        m    == Call("SearchGroup", <<ClassSizePre, ClassSizeGrp, ClassSizePost, txt, TRUE>>)
        size == IF m.found THEN Group0(txt, m) ELSE NA
        m2   == Call("Search", <<DURATION_REGEX, txt, TRUE>>)
        length == IF m2.found THEN strip(Group0(txt, m2)) ELSE NA
        unset(a) == a = "" \/ a = NA
        scoped ==
            IF ~Found(node) THEN NA
            ELSE IF Found(Call("find", <<node, {"address"}>>)) THEN Call("get_text", <<Call("find", <<node, {"address"}>>)>>)
            ELSE AddressBySelectors(node, ADDRESS_SELECTORS, NA, FALSE)
        page ==
            IF unset(scoped) /\ Found(soup)
            THEN IF Found(Call("find", <<soup, {"address"}>>)) THEN Call("get_text", <<Call("find", <<soup, {"address"}>>)>>)
                 ELSE AddressBySelectors(soup, ADDRESS_SELECTORS, scoped, TRUE)
            ELSE scoped
        global ==
            IF unset(scoped) /\ Found(soup) /\ unset(page)
            THEN AddressFromJsonld(_extract_jsonld_objects(soup), page)
            ELSE page
    IN  [size |-> ensure_field(size), length |-> ensure_field(length),
         address |-> ensure_field(global)]


extract_size_length_address(text, node, soup) ==
    LET txt  == IF text = None THEN "" ELSE text
        m    == Call("SearchGroup", <<ClassSizePre, ClassSizeGrp, ClassSizePost, txt, TRUE>>)
        size == IF m.found THEN Group0(txt, m) ELSE NA
        m2   == Call("Search", <<DURATION_REGEX, txt, TRUE>>)
        length == IF m2.found THEN strip(Group0(txt, m2)) ELSE NA
        unset(a) == a = "" \/ a = NA
        scoped ==
            IF ~Found(node) THEN NA
            ELSE IF Found(Call("find", <<node, {"address"}>>)) THEN Call("get_text", <<Call("find", <<node, {"address"}>>)>>)
            ELSE AddressBySelectors(node, ADDRESS_SELECTORS, NA, FALSE)
        linked ==
            IF unset(scoped) /\ Found(soup)
            THEN AddressFromJsonld(_extract_jsonld_objects(soup), scoped)
            ELSE scoped
        global ==
            IF unset(scoped) /\ Found(soup) /\ unset(linked)
            THEN IF Found(Call("find", <<soup, {"address"}>>)) THEN Call("get_text", <<Call("find", <<soup, {"address"}>>)>>)
                 ELSE AddressBySelectors(soup, ADDRESS_SELECTORS, linked, TRUE)
            ELSE linked
    IN  [size |-> ensure_field(size), length |-> ensure_field(length),
         address |-> ensure_field(global)]

-----------------------------------------------------------------------------
(* Rows and records                                                        *)

\* to_mmddyyyy(datetime.now()): the day of the run, as MM/DD/YYYY
ScrapeDateNow == "11/01/2026"

\* {k: row.get(k, "N/A") for k in schema}: a dict, as its (key, value) pairs
\* in insertion order; a key listed twice in the schema is one key
Project(row, schema) ==
    LET ks == Uniq(schema)
    IN  [i \in DOMAIN ks |-> <<ks[i], IF ks[i] \in DOMAIN row THEN row[ks[i]] ELSE NA>>]

Keys(item)     == [i \in DOMAIN item |-> item[i][1]]
Values(item)   == [i \in DOMAIN item |-> item[i][2]]
\* item.get(k, "N/A")
Get(item, k)   ==
    IF \E i \in DOMAIN item : item[i][1] = k
    THEN item[CHOOSE i \in DOMAIN item : item[i][1] = k][2]
    ELSE NA

\* what one call of an adapter does: raise or return items, after the
\* fetch_html calls it made (the use_js of each)
Returned(items, calls) == [raised |-> FALSE, items |-> items, calls |-> calls]
Raised(calls)          == [raised |-> TRUE, items |-> <<>>, calls |-> calls]

\* fetch_html(url, use_js): the markup, or the empty string on any failure;
\* net lists what the coming requests for the url yield
fetch_html(net) == IF net = <<>> THEN EmptyHtml ELSE Head(net)
IsEmpty(html)   == html.name = "#empty"

-----------------------------------------------------------------------------
(* scrape_generic                                                          *)

scrape_generic(net, url, schema, website_name, use_js) ==
    LET soup  == fetch_html(net)
        title_tag == Call("find", <<soup, {"title"}>>)
        title == IF Found(title_tag) THEN strip(string(title_tag)) ELSE NA
        p     == Call("find", <<soup, {"p"}>>)
        snippet == IF Found(p) THEN Call("get_text", <<p>>) ELSE Slice(Call("get_text", <<soup>>), 300)
        adt   == Call("extract_age_day_time_from_text", <<Call("get_text", <<soup>>)>>)
        sla   == Call("extract_size_length_address", <<Call("get_text", <<soup>>), NoNode, soup>>)
        class_length ==
            IF sla.length = NA /\ adt.times /= "" /\ adt.times /= NA
            THEN Call("parse_time_range_to_duration", <<adt.times>>) ELSE sla.length
        row == [Website |-> website_name, PageURL |-> url,
                ClassTitle |-> ensure_field(title), ClassType |-> ensure_field(title),
                AgeRange |-> ensure_field(adt.age), ClassSize |-> ensure_field(sla.size),
                ClassLength |-> ensure_field(class_length),
                DayOfWeek |-> ensure_field(adt.days), Times |-> ensure_field(adt.times),
                ClassDescription |-> ensure_field(snippet),
                ClassLocation |-> ensure_field(sla.address),
                ScrapeDate |-> ScrapeDateNow]
    IN  IF IsEmpty(soup) THEN Returned(<<>>, <<use_js>>)
        \* soup.title.string is None: .strip() raises inside the try, items stays []
        ELSE IF Found(title_tag) /\ string(title_tag) = None THEN Returned(<<>>, <<use_js>>)
        ELSE Returned(<<Project(row, schema)>>, <<use_js>>)

-----------------------------------------------------------------------------
(* scrape_alphaminds                                                       *)

SKIP_KEYWORDS ==
    <<"testimonial", "teacher", "contact us", "quick link", "registration",
      "why choose", "core strengths", "your message has been sent",
      "programs:", "jeremiah hosea", "rilwan ameen", "anthony kozikowsky",
      "george gawargi", "ivette garcia", "matthew rydell", "svetlana margoulis",
      "vera vitali", "stay in touch", "classes", "read more", "enroll",
      "private lessons", "individual instruction", "small group instruction">>

ClockOrHour == Alt(<<ClockHM, Rep(Digit, 1, 2)>>)
\* time_re of scrape_alphaminds
time_re ==
    Cat(<<ClockOrHour, Star(Space), Opt(Meridiem),
          Opt(Cat(<<Star(Space), In({EnDash, "-"}), Star(Space), ClockOrHour,
                    Star(Space), Opt(Meridiem)>>))>>)

KwTime     == Cat(<<WordB, Words(<<"time", "when">>), WordB>>)
KwSize     == Cat(<<WordB, Words(<<"max", "capacity", "class size", "limit", "spots">>), WordB>>)
KwDuration == Cat(<<WordB, Words(<<"duration", "length", "minutes", "hours">>), WordB>>)
KwLocation == Cat(<<WordB, Words(<<"address", "location", "studio", "venue">>), WordB>>)

\* (Age Group:.*?)\s*(Days:|$)
AgeLinePre  == Cat(<<>>)
AgeLineGrp  == Cat(<<Lit("Age Group:"), Lazy(AnyCh, 0, Inf)>>)
AgeLinePost == Cat(<<Star(Space), Alt(<<Lit("Days:"), AtEnd>>)>>)
\* Days:\s*(.*?)(?:\s*Our|\s*Register)
DaysLinePre  == Cat(<<Lit("Days:"), Star(Space)>>)
DaysLineGrp  == Lazy(AnyCh, 0, Inf)
DaysLinePost == Alt(<<Cat(<<Star(Space), Lit("Our")>>), Cat(<<Star(Space), Lit("Register")>>)>>)

\* sib.find(["a", "button"], string=re.compile("register", re.I))
HasRegisterLink(sib) ==
    \E k \in DOMAIN Descendants(sib) :
        LET d == Descendants(sib)[k]
        IN  /\ d.name \in {"a", "button"}
            /\ string(d) /= None
            /\ Call("Search", <<Lit("register"), string(d), TRUE>>).found

HeadingStart ==
    [age |-> NA, days |-> NA, times |-> NA, description_parts |-> <<>>,
     class_size |-> NA, class_length |-> NA, class_location |-> NA]

\* one pass of the loop over heading.find_next_siblings(), past its breaks and
\* continues: the fields after the sibling's text has been examined
SiblingStep(st, sib, soup) ==
    LET txt == Call("get_text", <<sib>>)
        low == lower(txt)
        \* labelled age, then the secondary search of the whole text
        alm  == Call("SearchGroup", <<AgeLinePre, AgeLineGrp, AgeLinePost, txt, TRUE>>)
        am1  == Call("Search", <<AGE_REGEX, Group0(txt, alm), TRUE>>)
        age1 == IF st.age = NA /\ alm.found /\ am1.found
                THEN strip(Group0(Group0(txt, alm), am1)) ELSE st.age
        am2  == Call("Search", <<AGE_REGEX, txt, TRUE>>)
        age2 == IF am2.found /\ age1 = NA THEN strip(Group0(txt, am2)) ELSE age1
        \* labelled days
        dlm  == Call("SearchGroup", <<DaysLinePre, DaysLineGrp, DaysLinePost, txt, TRUE>>)
        day_list == SplitLit(Group0(txt, dlm), ",")
        cleaned  == LET ne == SelectSeq(day_list, LAMBDA d : strip(d) /= "")
                    IN  [k \in DOMAIN ne |-> capitalize(strip(ne[k]))]
        days1 == IF st.days = NA /\ dlm.found /\ cleaned /= <<>>
                 THEN Join(cleaned, ", ") ELSE st.days
        \* times, and the length computed from them
        looks == Call("Search", <<KwTime, low, FALSE>>).found \/ Call("Search", <<time_re, txt, TRUE>>).found
        tms   == LET ms == Call("FindIter", <<time_re, txt, TRUE>>) IN [k \in DOMAIN ms |-> strip(ms[k])]
        current_times == IF st.times /= NA THEN SplitLit(st.times, ", ") ELSE <<>>
        times1 == IF looks /\ tms /= <<>> THEN Join(Uniq(current_times \o tms), ", ")
                  ELSE st.times
        cl     == Call("parse_time_range_to_duration", <<times1>>)
        len1   == IF looks /\ tms /= <<>> /\ cl /= NA /\ st.class_length = NA
                  THEN cl ELSE st.class_length
        \* size and duration phrase
        sized == Call("Search", <<KwSize, low, FALSE>>).found \/ Call("Search", <<KwDuration, low, FALSE>>).found
        sm    == Call("SearchGroup", <<ClassSizePre, ClassSizeGrp, ClassSizePost, txt, TRUE>>)
        size1 == IF sized /\ sm.found THEN Group0(txt, sm) ELSE st.class_size
        dm    == Call("Search", <<DURATION_REGEX, txt, TRUE>>)
        len2  == IF sized /\ dm.found /\ len1 = NA THEN strip(Group0(txt, dm)) ELSE len1
        \* description
        parts1 == IF sib.name \in {"p", "div", "li", "ul", "ol"}
                     /\ ~Contains(txt, "schoolMapsSettings") /\ ~Contains(txt, "imports")
                     /\ ~Contains(txt, "var schoolMapsSettings")
                  THEN Append(st.description_parts, txt) ELSE st.description_parts
        \* location
        s_addr == Call("extract_size_length_address", <<txt, sib, soup>>).address
        loc1   == IF st.class_location = NA /\ Call("Search", <<KwLocation, low, FALSE>>).found
                     /\ s_addr /= "" /\ s_addr /= NA
                  THEN s_addr ELSE st.class_location
    IN  [age |-> age2, days |-> days1, times |-> times1, description_parts |-> parts1,
         class_size |-> size1, class_length |-> len2, class_location |-> loc1]

RECURSIVE SiblingLoop(_, _, _)
\* for sib in heading.find_next_siblings(): ...
SiblingLoop(sibs, st, soup) ==
    IF sibs = <<>> THEN st
    ELSE LET sib == Head(sibs)
         IN  IF sib.name \in {"h2", "h3", "h4"} THEN st
             ELSE IF sib.name = "div" /\ Call("HasRegisterLink", <<sib>>) THEN st
             ELSE IF sib.name = "script"
                     \/ (sib.id /= "" /\ Contains(sib.id, "wp-interactivity-store"))
                  THEN SiblingLoop(Tail(sibs), st, soup)
             ELSE IF Call("get_text", <<sib>>) = "" THEN SiblingLoop(Tail(sibs), st, soup)
             ELSE SiblingLoop(Tail(sibs), Call("SiblingStep", <<st, sib, soup>>), soup)

\* heading.find_next_siblings(): the tags after the node at `path` under its parent
find_next_siblings(soup, path) ==
    LET parent == NodeAt(soup, SubSeq(path, 1, Len(path) - 1))
        later  == SubSeq(parent.kids, path[Len(path)] + 1, Len(parent.kids))
    IN  SelectSeq(later, IsTag)

\* the fields of one heading after the sibling loop: the final sweep of
\* title + description, the location filter and the row
AlphaRow(soup, heading, st, url, website_name) ==
    LET class_type  == ensure_field(Call("get_text", <<heading>>))
        joined      == strip(Join(SelectSeq(st.description_parts, LAMBDA x : x /= ""), " "))
        description == IF joined /= "" THEN joined ELSE NA
        full_text_for_search == class_type \o " " \o description
        sweep   == st.age = NA \/ st.days = NA \/ st.times = NA \/ st.class_length = NA
        guess   == Call("extract_age_day_time_from_text", <<full_text_for_search>>)
        age     == IF sweep /\ st.age = NA /\ guess.age /= NA THEN guess.age ELSE st.age
        days    == IF sweep /\ st.days = NA /\ guess.days /= NA THEN guess.days ELSE st.days
        newt    == sweep /\ st.times = NA /\ guess.times /= NA
        times   == IF newt THEN guess.times ELSE st.times
        cl      == Call("parse_time_range_to_duration", <<times>>)
        len1    == IF newt /\ st.class_length = NA /\ cl /= NA THEN cl ELSE st.class_length
        dm      == Call("Search", <<DURATION_REGEX, full_text_for_search, TRUE>>)
        len2    == IF sweep /\ dm.found /\ len1 = NA
                   THEN strip(Group0(full_text_for_search, dm)) ELSE len1
        loc     == IF st.class_location /= ""
                      /\ (Contains(st.class_location, "schoolMapsSettings")
                          \/ Contains(st.class_location, "wordpress/interactivity")
                          \/ Contains(st.class_location, "AIzaSyDn9tufwujzyp22Go"))
                   THEN NA ELSE st.class_location
    IN  [Website |-> website_name, PageURL |-> url,
         ClassTitle |-> ensure_field(class_type), ClassType |-> ensure_field(class_type),
         AgeRange |-> ensure_field(age), ClassSize |-> ensure_field(st.class_size),
         ClassLength |-> ensure_field(len2), DayOfWeek |-> ensure_field(days),
         Times |-> ensure_field(times), ClassDescription |-> ensure_field(description),
         ClassLocation |-> ensure_field(loc), ScrapeDate |-> ScrapeDateNow]

\* the test under which a row is appended to items
AlphaKeeps(row) ==
    \/ row.AgeRange /= NA \/ row.ClassLength /= NA \/ row.DayOfWeek /= NA
    \/ row.ClassTitle \notin {"Classes Offered", "All Age Groups"}

RECURSIVE AlphaHeadings(_, _, _, _, _)
\* for heading in soup.find_all(["h2", "h3", "h4"]): ...
AlphaHeadings(soup, paths, url, schema, website_name) ==
    IF paths = <<>> THEN <<>>
    ELSE LET heading == NodeAt(soup, Head(paths))
             lower_class_type == lower(ensure_field(Call("get_text", <<heading>>)))
             st   == SiblingLoop(find_next_siblings(soup, Head(paths)), HeadingStart, soup)
             row  == Call("AlphaRow", <<soup, heading, st, url, website_name>>)
             rest == AlphaHeadings(soup, Tail(paths), url, schema, website_name)
         IN  IF \E k \in DOMAIN SKIP_KEYWORDS : Contains(lower_class_type, SKIP_KEYWORDS[k])
             THEN rest
             ELSE IF AlphaKeeps(row) THEN <<Project(row, schema)>> \o rest
             ELSE rest

scrape_alphaminds(net, url, schema, website_name, use_js) ==
    LET soup  == fetch_html(net)
        paths == SelectSeq(DescPaths(soup, <<>>),
                           LAMBDA q : NodeAt(soup, q).name \in {"h2", "h3", "h4"})
    IN  IF IsEmpty(soup) THEN Returned(<<>>, <<use_js>>)
        ELSE Returned(AlphaHeadings(soup, paths, url, schema, website_name), <<use_js>>)

-----------------------------------------------------------------------------
(* scrape_aquatots, scrape_soccershots, scrape_mygym and the two aliases   *)

\* s.replace(old, new), old not empty
Replace(s, old, new) == Join(SplitLit(s, old), new)

scrape_aquatots(net, url, schema, website_name, use_js) ==
    LET soup  == fetch_html(net)
        title_tag == Call("find", <<soup, {"title"}>>)
        title == IF Found(title_tag)
                 THEN strip(Replace(string(title_tag), " | Aqua-Tots Swim Schools", ""))
                 ELSE NA
        level_tags == Call("select", <<soup, {<<"", "swim-level-detail">>}>>)
        generic == Call("scrape_generic", <<Tail(net), url, schema, website_name, use_js>>)
        Row(level_tag) ==
            LET class_type_tag == Call("find", <<level_tag, {"h2", "h3"}>>)
                class_type  == IF Found(class_type_tag) THEN Call("get_text", <<class_type_tag>>) ELSE title
                description_tag == Call("find", <<level_tag, {"p"}>>)
                description == IF Found(description_tag) THEN Call("get_text", <<description_tag>>) ELSE NA
                full_text   == Call("get_text", <<level_tag>>)
                age_match   == Call("Search", <<AGE_REGEX, full_text, TRUE>>)
                age == IF age_match.found THEN strip(Group0(full_text, age_match)) ELSE NA
            IN  [Website |-> website_name, PageURL |-> url,
                 ClassTitle |-> ensure_field(title), ClassType |-> ensure_field(class_type),
                 AgeRange |-> ensure_field(age), ClassSize |-> NA, ClassLength |-> NA,
                 DayOfWeek |-> NA, Times |-> NA,
                 ClassDescription |-> ensure_field(description),
                 ClassLocation |-> "General/Online (Check local branch for address)",
                 ScrapeDate |-> ScrapeDateNow]
    IN  IF IsEmpty(soup) THEN Returned(<<>>, <<use_js>>)
        \* soup.title.string is None: .replace raises
        ELSE IF Found(title_tag) /\ string(title_tag) = None THEN Raised(<<use_js>>)
        ELSE IF level_tags = <<>>
             THEN [generic EXCEPT !.calls = <<use_js>> \o generic.calls]
        ELSE Returned([k \in DOMAIN level_tags |-> Project(Row(level_tags[k]), schema)],
                      <<use_js>>)

\* x or default, for a text read from a linked-data object
TextOr(j, default) == IF Truthy(j) THEN j.v ELSE default

\* the row of one candidate c of a linked-data object
SoccerLdRow(c, url, website_name) ==
    LET title == TextOr(FirstTruthy(c, <<"name", "title", "headline">>), NA)
        desc  == TextOr(JGet(c, "description"), "")
        date  == TextOr(JGet(c, "startDate"), "")
        times == TextOr(JGet(c, "time"), "")
        loc   == FirstTruthy(c, <<"location", "venue", "address">>)
        class_location ==
            IF loc.jt = "dict" /\ LocParts(loc) /= <<>> THEN Join(LocParts(loc), ", ")
            ELSE IF loc.jt = "str" THEN loc.v
            ELSE NA
    IN  [Website |-> website_name, PageURL |-> url,
         ClassTitle |-> ensure_field(title), ClassType |-> ensure_field(title),
         AgeRange |-> ensure_field(NA), ClassSize |-> ensure_field(NA),
         ClassLength |-> ensure_field(NA), DayOfWeek |-> ensure_field(date),
         Times |-> ensure_field(times), ClassDescription |-> ensure_field(desc),
         ClassLocation |-> ensure_field(class_location), ScrapeDate |-> ScrapeDateNow]

\* the candidates of one linked-data object
LdCandidates(obj) ==
    LET graph == FirstTruthy(obj, <<"itemListElement", "@graph", "events", "offers">>)
    IN  IF graph.jt = "list" THEN graph.v ELSE <<>>

RECURSIVE LdCandidatesAll(_)
LdCandidatesAll(objs) ==
    IF objs = <<>> THEN <<>>
    ELSE LdCandidates(Head(objs)) \o LdCandidatesAll(Tail(objs))

\* obj.get / c.get raises on an object or candidate that is no dict; objects
\* are visited in order, so the first non-dict object, or the first non-dict
\* candidate of a dict object, ends the loop with an exception
RECURSIVE LdRaises(_)
LdRaises(objs) ==
    IF objs = <<>> THEN FALSE
    ELSE \/ Head(objs).jt /= "dict"
         \/ \E k \in DOMAIN LdCandidates(Head(objs)) : LdCandidates(Head(objs))[k].jt /= "dict"
         \/ LdRaises(Tail(objs))

SOCCER_SELECTORS ==
    << <<"div", "search-result-card">>, <<"div", "result">>, <<"div", "search-result">>,
       <<"div", "search-listing">>, <<"li", "result">>, <<"div", "card">>,
       <<"div", "listing">>, <<"div", "item">>, <<"", "product">> >>

\* the row of one card of the DOM fallbacks of scrape_soccershots and
\* scrape_mygym; the title falls back to the first `cut` characters of the text
CardRow(node, soup, url, website_name, cut) ==
    LET heading == Call("find", <<node, {"h2", "h3", "h4"}>>)
        title   == IF Found(heading) THEN heading ELSE Call("find", <<node, {"a"}>>)
        title_text == IF Found(title) THEN Call("get_text", <<title>>)
                      ELSE Slice(Call("get_text", <<node>>), cut)
        snippet == Call("get_text", <<node>>)
        adt == Call("extract_age_day_time_from_text", <<snippet>>)
        sla == Call("extract_size_length_address", <<snippet, node, soup>>)
        class_length ==
            IF sla.length = NA /\ adt.times /= "" /\ adt.times /= NA
            THEN Call("parse_time_range_to_duration", <<adt.times>>) ELSE sla.length
    IN  [Website |-> website_name, PageURL |-> url,
         ClassTitle |-> ensure_field(title_text), ClassType |-> ensure_field(title_text),
         AgeRange |-> ensure_field(adt.age), ClassSize |-> ensure_field(sla.size),
         ClassLength |-> ensure_field(class_length), DayOfWeek |-> ensure_field(adt.days),
         Times |-> ensure_field(adt.times), ClassDescription |-> ensure_field(snippet),
         ClassLocation |-> ensure_field(sla.address), ScrapeDate |-> ScrapeDateNow]

RECURSIVE FirstSelected(_, _)
\* the nodes of the first selector that selects any
FirstSelected(soup, sels) ==
    IF sels = <<>> THEN <<>>
    ELSE IF Call("select", <<soup, {Head(sels)}>>) /= <<>> THEN Call("select", <<soup, {Head(sels)}>>)
    ELSE FirstSelected(soup, Tail(sels))

scrape_soccershots(net, url, schema, website_name, use_js) ==
    LET soup  == fetch_html(net)
        json_objs == _extract_jsonld_objects(soup)
        cands == LdCandidatesAll(json_objs)
        nodes == FirstSelected(soup, SOCCER_SELECTORS)
        generic == Call("scrape_generic", <<Tail(net), url, schema, website_name, use_js>>)
    IN  IF IsEmpty(soup) THEN Returned(<<>>, <<use_js>>)
        ELSE IF LdRaises(json_objs) THEN Raised(<<use_js>>)
        ELSE IF cands /= <<>>
             THEN Returned([k \in DOMAIN cands |->
                              Project(Call("SoccerLdRow", <<cands[k], url, website_name>>), schema)],
                           <<use_js>>)
        ELSE IF nodes /= <<>>
             THEN Returned([k \in DOMAIN nodes |->
                              Project(Call("CardRow", <<nodes[k], soup, url, website_name, 100>>), schema)],
                           <<use_js>>)
        ELSE [generic EXCEPT !.calls = <<use_js>> \o generic.calls]

MYGYM_SELECTORS ==
    { <<"div", "schedule-item">>, <<"div", "class-box">>, <<"div", "schedule-card">>,
      <<"div", "class-card">>, <<"div", "card">>, <<"li", "class-item">>,
      <<"div", "schedule">>, <<"", "class-listing">>, <<"", "class">> }

\* the row of one heading of the heading branch of scrape_mygym
MyGymHeadingRow(soup, path, url, website_name) ==
    LET h     == NodeAt(soup, path)
        title == Call("get_text", <<h>>)
        sibs  == Slice(find_next_siblings(soup, path), 6)
        snippet == Join([k \in DOMAIN sibs |-> " " \o Call("get_text", <<sibs[k]>>)], "")
        adt == Call("extract_age_day_time_from_text", <<snippet>>)
        sla == Call("extract_size_length_address", <<snippet, h, soup>>)
        class_length ==
            IF sla.length = NA /\ adt.times /= "" /\ adt.times /= NA
            THEN Call("parse_time_range_to_duration", <<adt.times>>) ELSE sla.length
    IN  [Website |-> website_name, PageURL |-> url,
         ClassTitle |-> ensure_field(title), ClassType |-> ensure_field(title),
         AgeRange |-> ensure_field(adt.age), ClassSize |-> ensure_field(sla.size),
         ClassLength |-> ensure_field(class_length), DayOfWeek |-> ensure_field(adt.days),
         Times |-> ensure_field(adt.times),
         ClassDescription |-> ensure_field(IF strip(snippet) /= "" THEN strip(snippet)
                                           ELSE title),
         ClassLocation |-> ensure_field(sla.address), ScrapeDate |-> ScrapeDateNow]

scrape_mygym(net, url, schema, website_name, use_js) ==
    LET soup  == fetch_html(net)
        nodes == Call("select", <<soup, MYGYM_SELECTORS>>)
        headings == SelectSeq(DescPaths(soup, <<>>),
                              LAMBDA q : NodeAt(soup, q).name \in {"h2", "h3", "h4"})
        generic == Call("scrape_generic", <<Tail(net), url, schema, website_name, use_js>>)
    IN  IF IsEmpty(soup) THEN Returned(<<>>, <<use_js>>)
        ELSE IF nodes = <<>>
             THEN IF headings /= <<>>
                  THEN Returned([k \in DOMAIN headings |->
                                    Project(Call("MyGymHeadingRow", <<soup, headings[k], url,
                                                            website_name>>), schema)],
                                <<use_js>>)
                  ELSE [generic EXCEPT !.calls = <<use_js>> \o generic.calls]
        ELSE Returned([k \in DOMAIN nodes |->
                          Project(Call("CardRow", <<nodes[k], soup, url, website_name, 80>>), schema)],
                      <<use_js>>)

scrape_hisawyer(net, url, schema, website_name, use_js) ==
    Call("scrape_generic", <<net, url, schema, website_name, use_js>>)

scrape_babybandstand(net, url, schema, website_name, use_js) ==
    Call("scrape_generic", <<net, url, schema, website_name, use_js>>)

-----------------------------------------------------------------------------
(* Configuration: load_config and parse_timeframe_to_seconds               *)

\* a key that is absent from a dict
Missing == "<Missing>"

\* a value of the key "schema": a list of names, or something that is no list
ListOf(xs) == [list |-> TRUE, v |-> xs]
NotAList   == [list |-> FALSE, v |-> <<>>]

\* an element of the list of pages: a dict, or something that is no dict.
\* use_js absent reads as False in both places that read it (lines 111, 719).
Entry(website, url, schema, timeframe, use_js) ==
    [dict |-> TRUE, website |-> website, url |-> url, schema |-> schema,
     timeframe |-> timeframe, use_js |-> use_js]
NotADict == [dict |-> FALSE, website |-> Missing, url |-> Missing, schema |-> NotAList,
             timeframe |-> Missing, use_js |-> FALSE]

\* Python's truth value of a text that may be None or absent
Falsy(x) == x \in {"", None, Missing}

\* p.get(key, default)
GetOr(x, default) == IF x = Missing THEN default ELSE x

\* the loop of load_config over the pages: the validated entries
RECURSIVE ValidPages(_)
ValidPages(ps) ==
    IF ps = <<>> THEN <<>>
    ELSE LET p == Head(ps)
         IN  IF ~p.dict THEN ValidPages(Tail(ps))
             ELSE IF Falsy(p.website) \/ Falsy(p.url) \/ ~p.schema.list
                  THEN ValidPages(Tail(ps))
             ELSE <<Entry(p.website, p.url, p.schema, GetOr(p.timeframe, "7d"), p.use_js)>>
                     \o ValidPages(Tail(ps))

\* A configuration file: which of the keys "pages" and "websites" it has, and
\* the list under each.  load_config returns it with "websites" set to the
\* validated entries of (cfg.get("pages") or cfg.get("websites") or []).
load_config(file) ==
    LET listed == IF "pages" \in file.keys /\ file.pages /= <<>> THEN file.pages
                  ELSE IF "websites" \in file.keys /\ file.websites /= <<>> THEN file.websites
                  ELSE <<>>
    IN  [keys |-> file.keys \cup {"websites"}, pages |-> file.pages,
         websites |-> ValidPages(listed)]

\* int(x): Python accepts surrounding whitespace, a sign, and digits
IntLiteral == Cat(<<Opt(In({"+", "-"})), Plus(Digit), AtEnd>>)
IsInt(x)   == M(IntLiteral, strip(x), 1, FALSE) /= <<>>
IntOf(x)   ==
    LET t == strip(x)
    IN  IF Head(t) = "-" THEN 0 - ToInt(Tail(t))
        ELSE IF Head(t) = "+" THEN ToInt(Tail(t))
        ELSE ToInt(t)

\* parse_timeframe_to_seconds(tf): the seconds, or raised where int() raises
parse_timeframe_to_seconds(tf) ==
    LET t == lower(strip(IF tf = None THEN "None" ELSE tf))
        cut == SubSeq(t, 1, Len(t) - 1)
        Scaled(k) == IF IsInt(cut) THEN [raised |-> FALSE, seconds |-> IntOf(cut) * k]
                     ELSE [raised |-> TRUE, seconds |-> 0]
    IN  IF EndsWith(t, "m") THEN Scaled(60)
        ELSE IF EndsWith(t, "h") THEN Scaled(3600)
        ELSE IF EndsWith(t, "d") THEN Scaled(86400)
        ELSE IF IsInt(t) THEN [raised |-> FALSE, seconds |-> IntOf(t) * 86400]
        ELSE [raised |-> FALSE, seconds |-> 7 * 86400]

-----------------------------------------------------------------------------
(* The sink: GoogleSheetLoader.append_rows                                 *)

\* What the three calls to the worksheet do in one append_rows: each either
\* works or raises (row_values, insert_row, append_rows).
SinkFaults == [read : BOOLEAN, insert : BOOLEAN, append : BOOLEAN]
NoFaults   == [read |-> FALSE, insert |-> FALSE, append |-> FALSE]

append_rows(sh, rows, header, faults) ==
    LET existing == IF faults.read \/ sh = <<>> THEN <<>> ELSE sh[1]
        hdr_norm == [k \in DOMAIN header |-> strip(header[k])]
        differs  == existing = <<>> \/ [k \in DOMAIN existing |-> strip(existing[k])] /= hdr_norm
        with_hdr == IF header /= <<>> /\ differs /\ ~faults.insert
                    THEN <<hdr_norm>> \o sh ELSE sh
        batch_values == [r \in DOMAIN rows |-> [k \in DOMAIN header |-> Get(rows[r], header[k])]]
    IN  IF rows = <<>> THEN sh
        ELSE IF faults.append THEN with_hdr
        ELSE with_hdr \o batch_values

-----------------------------------------------------------------------------
(* The dispatcher and run_scrape_job                                       *)

USE_JS_RENDERING == TRUE

SCRAPER_REGISTRY ==
    {"alphamindsacademy", "aquatots", "soccershots", "mygym", "hisawyer",
     "babybandstand", "generic"}

\* Dispatch without the global USE_JS_RENDERING in the use_js it passes
DispatchDeclared(website, cfg_use_js) ==
    LET website_name == GetOr(website, NA)
        wl == lower(IF Falsy(website_name) THEN "" ELSE website_name)
        forced == Contains(wl, "soccershots") \/ Contains(wl, "hudsoncounty")
    IN  [scraper |-> IF forced THEN "soccershots"
                     ELSE IF wl \in SCRAPER_REGISTRY THEN wl ELSE "generic",
         use_js  |-> IF forced THEN TRUE ELSE cfg_use_js]

\* lines 716-733 of run_scrape_job: the registered name of the scraper the job
\* calls, and the use_js it passes
Dispatch(website, cfg_use_js) ==
    LET website_name == GetOr(website, NA)
        wl == lower(IF Falsy(website_name) THEN "" ELSE website_name)
        forced == Contains(wl, "soccershots") \/ Contains(wl, "hudsoncounty")
    IN  [scraper |-> IF forced THEN "soccershots"
                     ELSE IF wl \in SCRAPER_REGISTRY THEN wl ELSE "generic",
         use_js  |-> IF forced THEN TRUE ELSE (cfg_use_js \/ USE_JS_RENDERING)]

\* scraper_func(url, schema, website_name, use_js=use_js)
CallScraper(name, net, url, schema, website_name, use_js) ==
    CASE name = "alphamindsacademy" -> Call("scrape_alphaminds", <<net, url, schema, website_name, use_js>>)
      [] name = "aquatots"          -> Call("scrape_aquatots", <<net, url, schema, website_name, use_js>>)
      [] name = "soccershots"       -> Call("scrape_soccershots", <<net, url, schema, website_name, use_js>>)
      [] name = "mygym"             -> Call("scrape_mygym", <<net, url, schema, website_name, use_js>>)
      [] name = "hisawyer"          -> Call("scrape_hisawyer", <<net, url, schema, website_name, use_js>>)
      [] name = "babybandstand"     -> Call("scrape_babybandstand", <<net, url, schema, website_name, use_js>>)
      [] OTHER                      -> Call("scrape_generic", <<net, url, schema, website_name, use_js>>)

\* run_scrape_job without the "if not items: return" before the append
run_scrape_job_appending(page_config, net, faults, sh) ==
    LET website_name == GetOr(page_config.website, NA)
        url   == GetOr(page_config.url, NA)
        d     == Dispatch(page_config.website, page_config.use_js)
        res   == CallScraper(d.scraper, net, url, page_config.schema.v, website_name, d.use_js)
        items == IF res.raised THEN <<>> ELSE res.items
    IN  [called |-> page_config.schema.list, scraper |-> d.scraper, use_js |-> d.use_js,
         scraped |-> res, items |-> items, appended |-> page_config.schema.list,
         sheet |-> IF page_config.schema.list
                   THEN Call("append_rows", <<sh, items, page_config.schema.v, faults>>) ELSE sh]

\* One call run_scrape_job(page_config, loader), with the worksheet sh: what
\* it did, and the worksheet after it.
\*   called    whether a scraper was called, and which
\*   scraped   what the scraper did (raised, or the items it returned)
\*   items     the items after the try/except
\*   appended  whether loader.append_rows was called
run_scrape_job(page_config, net, faults, sh) ==
    LET website_name == GetOr(page_config.website, NA)
        url   == GetOr(page_config.url, NA)
        d     == Dispatch(page_config.website, page_config.use_js)
        res   == CallScraper(d.scraper, net, url, page_config.schema.v, website_name, d.use_js)
        items == IF res.raised THEN <<>> ELSE res.items
    IN  IF ~page_config.schema.list
        THEN [called |-> FALSE, scraper |-> "", use_js |-> FALSE, scraped |-> Returned(<<>>, <<>>),
              items |-> <<>>, appended |-> FALSE, sheet |-> sh]
        ELSE [called |-> TRUE, scraper |-> d.scraper, use_js |-> d.use_js, scraped |-> res,
              items |-> items, appended |-> items /= <<>>,
              sheet |-> IF items /= <<>>
                        THEN Call("append_rows", <<sh, items, page_config.schema.v, faults>>) ELSE sh]

\* The call of the function named f with the arguments a.  The functions of
\* app.py and of the re module call each other through this one operator.
Call(f, a) ==
    CASE f = "Search" -> Search(a[1], a[2], a[3])
      [] f = "FindIter" -> FindIter(a[1], a[2], a[3])
      [] f = "Split" -> Split(a[1], a[2], a[3], a[4])
      [] f = "SearchGroup" -> SearchGroup(a[1], a[2], a[3], a[4], a[5])
      [] f = "dateparser_parse" -> dateparser_parse(a[1])
      [] f = "parse_time_range_to_duration" -> parse_time_range_to_duration(a[1])
      [] f = "extract_age_day_time_from_text" -> extract_age_day_time_from_text(a[1])
      [] f = "extract_size_length_address" -> extract_size_length_address(a[1], a[2], a[3])
      [] f = "scrape_generic" -> scrape_generic(a[1], a[2], a[3], a[4], a[5])
      [] f = "scrape_alphaminds" -> scrape_alphaminds(a[1], a[2], a[3], a[4], a[5])
      [] f = "scrape_aquatots" -> scrape_aquatots(a[1], a[2], a[3], a[4], a[5])
      [] f = "scrape_soccershots" -> scrape_soccershots(a[1], a[2], a[3], a[4], a[5])
      [] f = "scrape_mygym" -> scrape_mygym(a[1], a[2], a[3], a[4], a[5])
      [] f = "scrape_hisawyer" -> scrape_hisawyer(a[1], a[2], a[3], a[4], a[5])
      [] f = "scrape_babybandstand" -> scrape_babybandstand(a[1], a[2], a[3], a[4], a[5])
      [] f = "CardRow" -> CardRow(a[1], a[2], a[3], a[4], a[5])
      [] f = "MyGymHeadingRow" -> MyGymHeadingRow(a[1], a[2], a[3], a[4])
      [] f = "SoccerLdRow" -> SoccerLdRow(a[1], a[2], a[3])
      [] f = "AlphaRow" -> AlphaRow(a[1], a[2], a[3], a[4], a[5])
      [] f = "SiblingStep" -> SiblingStep(a[1], a[2], a[3])
      [] f = "HasRegisterLink" -> HasRegisterLink(a[1])
      [] f = "run_scrape_job" -> run_scrape_job(a[1], a[2], a[3], a[4])
      [] f = "append_rows" -> append_rows(a[1], a[2], a[3], a[4])
      [] f = "get_text" -> get_text(a[1])
      [] f = "select" -> select(a[1], a[2])
      [] f = "find" -> find(a[1], a[2])
      [] f = "find_all" -> find_all(a[1], a[2])

-----------------------------------------------------------------------------
(* The specifications.  Each takes its inputs in the initial state, in     *)
(* inp, and applies the operation to them in one step, leaving what the    *)
(* operation returned in out.                                              *)

\* the variables a specification does not use
Idle == pages = <<>> /\ idx = 0 /\ sheet = <<>> /\ log = <<>>

\* the texts of at most n characters of the alphabet
StringsOver(alphabet, n) ==
    UNION {{Join(t, "") : t \in [1..k -> alphabet]} : k \in 0..n}

-----------------------------------------------------------------------------
(* ensure_field on short texts                                             *)

MaxFieldLen   == 4
FieldAlphabet == {"a", "b", " ", "\n"}
FieldInputs   == StringsOver(FieldAlphabet, MaxFieldLen) \cup {None}

InitField == pc = "start" /\ inp \in FieldInputs /\ out = NA /\ Idle
Normalize ==
    /\ pc = "start"
    /\ out' = ensure_field(inp)
    /\ pc' = "done"
    /\ UNCHANGED <<inp, pages, idx, sheet, log>>
NextField == Normalize
SpecField == InitField /\ [][NextField]_vars

\* two consecutive whitespace characters in s
HasSpaceRun(s) == \E i \in 1..(Len(s) - 1) : IsSpace(Ch(s, i)) /\ IsSpace(Ch(s, i + 1))

\* C9: ensure_field trims, collapses every internal run of whitespace to one
\* space and gives "N/A" for None, empty and whitespace-only input, so no
\* value it returns has two consecutive whitespace characters
C9_NormalizerCollapses ==
    pc = "done" =>
        /\ out = (IF inp = None \/ strip(inp) = "" THEN NA ELSE CollapseSpace(strip(inp)))
        /\ ~HasSpaceRun(out)

-----------------------------------------------------------------------------
(* The dispatcher on source names                                          *)

RegisteredIds ==
    {"alphamindsacademy", "aquatots", "soccershots", "mygym", "hisawyer", "babybandstand"}
NamePrefixes == {"", " ", "My "}
NameSuffixes == {"", " ", " NJ"}
NameCores    == RegisteredIds \cup {"generic", "kidsclub", "hudsoncounty"}
\* a name in lower case, or titled, or in upper case
NameCases    == {"lower", "Title", "UPPER"}
Cased(s, c) ==
    IF c = "lower" THEN s
    ELSE IF c = "Title" THEN capitalize(s)
    ELSE Join([k \in 1..Len(s) |-> UpperCh(Ch(s, k))], "")
SourceNames ==
    {pre \o Cased(core, c) \o suf :
        pre \in NamePrefixes, core \in NameCores, suf \in NameSuffixes, c \in NameCases}

InitDispatch ==
    /\ pc = "start"
    /\ inp \in [website : SourceNames, use_js : BOOLEAN]
    /\ out = [scraper |-> "", use_js |-> FALSE]
    /\ Idle
Select ==
    /\ pc = "start"
    /\ out' = Dispatch(inp.website, inp.use_js)
    /\ pc' = "done"
    /\ UNCHANGED <<inp, pages, idx, sheet, log>>
NextDispatch == Select
SpecDispatch == InitDispatch /\ [][NextDispatch]_vars

\* the registered identifiers the name contains once lower-cased and stripped
IdsIn(name) == {id \in RegisteredIds : Contains(strip(lower(name)), id)}

\* C1: a name that contains a registered identifier is dispatched to the
\* adapter registered under it, and the generic adapter is selected only when
\* the name contains no identifier
C1_DispatchBySubstring ==
    pc = "done" =>
        /\ \A id \in IdsIn(inp.website) : out.scraper = id
        /\ out.scraper = "generic" => IdsIn(inp.website) = {}

\* C12 as stated: the use_js passed to the adapter is TRUE for a source
\* dispatched to scrape_soccershots, and the use_js the source declares for
\* every other source.
C12_RenderModeDeclared ==
    pc = "done" =>
        out.use_js = (IF out.scraper = "soccershots" THEN TRUE ELSE inp.use_js)
\* C12: the use_js passed to the adapter is TRUE for a source dispatched to
\* scrape_soccershots, and for every other source the use_js the source
\* declares or the global USE_JS_RENDERING.
C12_RenderModeOrGlobal ==
    pc = "done" =>
        out.use_js = (out.scraper = "soccershots" \/ inp.use_js \/ USE_JS_RENDERING)
\* a source that declares no JS and is not dispatched to scrape_soccershots
\* is passed use_js = True
C12_StaticSourceRendered ==
    pc = "done" /\ ~inp.use_js /\ out.scraper /= "soccershots" /\ out.use_js

-----------------------------------------------------------------------------
(* parse_time_range_to_duration on ranges of two clock times with AM/PM    *)

MaxHour       == 12
MinuteStep    == 15
ClockHours    == {1, 9, 10, 11, MaxHour}
ClockMinutes  == {m \in 0..59 : m % MinuteStep = 0 /\ m <= 2 * MinuteStep}
Meridiems     == {"AM", "PM"}
\* "9:30 AM" and "9:30AM"
ClockStyles   == {" ", ""}
ClockTimes    == [h : ClockHours, m : ClockMinutes, mer : Meridiems]

TwoDigits(n)  == IF n < 10 THEN "0" \o ToStr(n) ELSE ToStr(n)
ClockText(c, style) == ToStr(c.h) \o ":" \o TwoDigits(c.m) \o style \o c.mer
RangeText(r)  == ClockText(r.start, r.style) \o " - " \o ClockText(r.end, r.style)

InitDuration ==
    /\ pc = "start"
    /\ inp \in [start : ClockTimes, end : ClockTimes, style : ClockStyles]
    /\ out = NA
    /\ Idle
Measure ==
    /\ pc = "start"
    /\ out' = Call("parse_time_range_to_duration", <<RangeText(inp)>>)
    /\ pc' = "done"
    /\ UNCHANGED <<inp, pages, idx, sheet, log>>
NextDuration == Measure
SpecDuration == InitDuration /\ [][NextDuration]_vars

\* minutes after midnight of a 12-hour clock time
MinuteOfDay(c) == ((c.h % 12) + (IF c.mer = "PM" THEN 12 ELSE 0)) * 60 + c.m
\* end minus start, a day added when the end precedes the start
SpanOf(r) ==
    IF MinuteOfDay(r.end) < MinuteOfDay(r.start)
    THEN MinuteOfDay(r.end) + MinutesPerDay - MinuteOfDay(r.start)
    ELSE MinuteOfDay(r.end) - MinuteOfDay(r.start)
SpanText(n) ==
    IF n <= 0 \/ n > 360 THEN NA
    ELSE IF n < 60 THEN ToStr(n) \o "m"
    ELSE IF n % 60 = 0 THEN ToStr(n \div 60) \o "h"
    ELSE ToStr(n \div 60) \o "h" \o ToStr(n % 60) \o "m"

\* C6: the duration of a range of two clock times with AM/PM is the text of
\* the span between them, "N/A" exactly when the span is <= 0 or > 360 minutes
C6_DurationOfRange == pc = "done" => out = SpanText(SpanOf(inp))

\* the same for the ranges written as in the function's own example,
\* "9:30 AM - 10:15 AM"
SpacedRangeDuration ==
    pc = "done" /\ inp.style = " " => out = SpanText(SpanOf(inp))

-----------------------------------------------------------------------------
(* Pages of the sources, and the page entries that name them               *)

Para(x)      == Tag("p", <<Text(x)>>)
Heading(h, x) == Tag(h, <<Text(x)>>)

\* two blocks with the same title
AlphaDup ==
    Soup(<<Heading("h3", "Chess Club"), Para("Ages 5-7 Monday"),
           Heading("h3", "Chess Club"), Para("Ages 8-10 Friday")>>)
\* a denylisted block and a block with a labelled age and days
AlphaLabelled ==
    Soup(<<Heading("h2", "Our Teachers"), Para("Ten years of chess"),
           Heading("h3", "Math Lab"), Para("Age Group: Grade 1 - 5 Days: Monday Our lab")>>)
AquaLevels ==
    Soup(<<Tag("title", <<Text("Swim | Aqua-Tots Swim Schools")>>),
           El("div", "", "swim-level-detail",
              <<Heading("h2", "Level 1"), Para("Ages 2-3 with a parent")>>),
           El("div", "", "swim-level-detail", <<Para("Water safety")>>)>>)
\* a title with two children: title.string is None
AquaBadTitle ==
    Soup(<<Tag("title", <<Text("Swim"), Tag("b", <<Text("School")>>)>>),
           El("div", "", "swim-level-detail", <<Para("Level 1")>>)>>)
\* linked data whose second candidate is a string
SoccerLdBad ==
    Soup(<<LdJson(JDict("@graph" :> JList(<<JDict("name" :> JStr("Mini")),
                                            JStr("Classic")>>)))>>)
SoccerLdGood ==
    Soup(<<LdJson(JDict("events" :> JList(<<JDict(("name" :> JStr(" Mini "))
                                                  @@ ("time" :> JStr("9 AM")))>>)))>>)
SoccerCards ==
    Soup(<<El("div", "", "card", <<Heading("h3", "Premier"), Para("Sat 9:00 AM - 9:45 AM")>>),
           El("div", "", "card", <<Para("Ages 3-5")>>)>>)
MyGymCards ==
    Soup(<<El("div", "", "class-card", <<Heading("h4", "Tiny Tykes"), Para("45 minutes")>>)>>)
MyGymHeadings ==
    Soup(<<Heading("h2", "Gymsters"), Para("Ages 3-4 Tue 10:00 AM")>>)
GenericPage ==
    Soup(<<Tag("title", <<Text(" Kids Club ")>>), Para("Art for ages 4-6, max 8 kids")>>)
GenericNoTitle == Soup(<<Para("Open play")>>)

\* what the site at a url serves
Web(url) ==
    CASE url = "http://alpha/dup"   -> AlphaDup
      [] url = "http://alpha/lab"   -> AlphaLabelled
      [] url = "http://aqua/levels" -> AquaLevels
      [] url = "http://aqua/bad"    -> AquaBadTitle
      [] url = "http://aqua/plain"  -> GenericPage
      [] url = "http://soccer/bad"  -> SoccerLdBad
      [] url = "http://soccer/ld"   -> SoccerLdGood
      [] url = "http://soccer/dom"  -> SoccerCards
      [] url = "http://gym/cards"   -> MyGymCards
      [] url = "http://gym/heads"   -> MyGymHeadings
      [] url = "http://kids"        -> GenericPage
      [] OTHER                      -> GenericNoTitle

FullSchema ==
    <<"Website", "PageURL", "ClassTitle", "ClassType", "AgeRange", "ClassSize",
      "ClassLength", "DayOfWeek", "Times", "ClassDescription", "ClassLocation",
      "ScrapeDate">>
ShortSchema == <<"ClassTitle", "Price", "AgeRange">>
Schemas == {FullSchema, ShortSchema}

\* (website, url) of the sources
Sources ==
    { <<"alphamindsacademy", "http://alpha/dup">>, <<"AlphaMindsAcademy", "http://alpha/lab">>,
      <<"aquatots", "http://aqua/levels">>, <<"aquatots", "http://aqua/bad">>,
      <<"Aquatots", "http://aqua/plain">>, <<"soccershots", "http://soccer/bad">>,
      <<"soccershots", "http://soccer/ld">>,
      <<"SoccerShots of Hudson County", "http://soccer/dom">>,
      <<"mygym", "http://gym/cards">>, <<"MyGym", "http://gym/heads">>,
      <<" MyGym ", "http://gym/cards">>, <<"hisawyer", "http://kids">>,
      <<"Kids Club", "http://kids">>, <<"", "http://kids">>, <<None, "http://open">> }

\* how many requests of one job the network serves before it fails
MaxFetches == 2
Nets(url) == {[k \in 1..n |-> Web(url)] : n \in 0..MaxFetches}

-----------------------------------------------------------------------------
(* One job: run_scrape_job on a page entry                                 *)

JobPages ==
    {Entry(src[1], src[2], ListOf(schema), "7d", FALSE) : src \in Sources, schema \in Schemas}
SinkCases == {NoFaults, [NoFaults EXCEPT !.append = TRUE]}

NoJob ==
    [called |-> FALSE, scraper |-> "", use_js |-> FALSE, scraped |-> Returned(<<>>, <<>>),
     items |-> <<>>, appended |-> FALSE, sheet |-> <<>>]

InitJob ==
    /\ pc = "start"
    /\ \E page \in JobPages :
         inp \in [page : {page}, net : Nets(page.url), faults : SinkCases]
    /\ out = NoJob
    /\ Idle
RunJob ==
    /\ pc = "start"
    /\ out' = Call("run_scrape_job", <<inp.page, inp.net, inp.faults, sheet>>)
    /\ sheet' = out'.sheet
    /\ pc' = "done"
    /\ UNCHANGED <<inp, pages, idx, log>>
NextJob == RunJob
SpecJob == InitJob /\ [][NextJob]_vars

\* the candidates of the linked data of the page a job fetched
JobCandidates == LdCandidatesAll(_extract_jsonld_objects(fetch_html(inp.net)))

\* C3: when the fetch of a job yields empty markup, or its adapter raises
\* (even after it built rows), the job ends with no items, append_rows is not
\* called and the worksheet is as it was.
C3_FailureAppendsNothing ==
    pc = "done" /\ (IsEmpty(fetch_html(inp.net)) \/ out.scraped.raised)
        => out.called /\ out.items = <<>> /\ ~out.appended /\ sheet = <<>>
\* the adapter raised at the second candidate, after the row of the first
C3_RaisedAfterRow ==
    /\ pc = "done" /\ out.scraped.raised /\ ~out.appended
    /\ Len(JobCandidates) = 2
    /\ JobCandidates[1].jt = "dict" /\ JobCandidates[2].jt /= "dict"
\* the fetch failed and the job ended without an append
C3_EmptyFetch ==
    pc = "done" /\ inp.net = <<>> /\ out.called /\ ~out.scraped.raised /\ ~out.appended

\* a value of a record: "N/A", or a non-empty text without outer whitespace
FieldOk(v) == v = NA \/ (v /= None /\ v /= "" /\ strip(v) = v)

\* C4: the keys of every record an adapter returns are the schema, in its
\* order, and every value is "N/A" or a non-empty stripped text, never None.
C4_RecordsFollowSchema ==
    pc = "done" =>
        \A k \in DOMAIN out.scraped.items :
            /\ Keys(out.scraped.items[k]) = inp.page.schema.v
            /\ \A i \in DOMAIN out.scraped.items[k] : FieldOk(out.scraped.items[k][i][2])

\* C5: no two records of one run have the same class title.
C5_NoDuplicateTitles ==
    pc = "done" =>
        \A i, j \in DOMAIN out.items :
            i < j => Get(out.items[i], "ClassTitle") /= Get(out.items[j], "ClassTitle")

-----------------------------------------------------------------------------
(* scrape_alphaminds on pages of heading blocks                            *)

HeadingTags == {"h2", "h3", "h4"}
\* the dashes after a title: em dash, en dash, hyphen
TitleDashes == {"^", "~", "-"}
TotsDetails == "Ages 2-3, Tue/Thu, 10:00-10:45 AM"

\* the valid block: its text in the heading, or the details in a paragraph
TotsBlock(h, dash, split) ==
    IF split THEN <<Heading(h, "Tiny Tots " \o dash), Para(TotsDetails)>>
    ELSE <<Heading(h, "Tiny Tots " \o dash \o " " \o TotsDetails)>>
DeniedBlock(h) == <<Heading(h, "Testimonials"), Para("Great for ages 4-6 on Monday")>>

TotsPages ==
    {[family |-> "tots", dash |-> dash, split |-> split,
      doc |-> Soup(IF first THEN DeniedBlock(hd) \o TotsBlock(h, dash, split)
                   ELSE TotsBlock(h, dash, split) \o DeniedBlock(hd))] :
        h \in HeadingTags, hd \in HeadingTags, dash \in TitleDashes,
        split \in BOOLEAN, first \in BOOLEAN}

AgeLabel     == "Age Group: 3-5"
OtherAges    == {"6 years", "Grade 2"}
\* where the unrelated age stands
Placements   == {"before", "after", "earlier", "later", "heading"}
\* what follows the labelled age in its paragraph
LabelEnds    == {"", " Days: Monday Our lab"}

LabelBlock(h, other, place, end) ==
    CASE place = "before"  -> <<Heading(h, "Chess Club"),
                                Para("Siblings " \o other \o ". " \o AgeLabel \o end)>>
      [] place = "after"   -> <<Heading(h, "Chess Club"),
                                Para(AgeLabel \o end \o " Siblings " \o other)>>
      [] place = "earlier" -> <<Heading(h, "Chess Club"), Para("Siblings " \o other),
                                Para(AgeLabel \o end)>>
      [] place = "later"   -> <<Heading(h, "Chess Club"), Para(AgeLabel \o end),
                                Para("Siblings " \o other)>>
      [] OTHER             -> <<Heading(h, "Chess Club " \o other), Para(AgeLabel \o end)>>

LabelPages ==
    {[family |-> "label", dash |-> "", split |-> place /= "heading",
      doc |-> Soup(LabelBlock(h, other, place, end))] :
        h \in HeadingTags, other \in OtherAges, place \in Placements, end \in LabelEnds}

InitAlpha ==
    /\ pc = "start"
    /\ inp \in TotsPages \cup LabelPages
    /\ out = Returned(<<>>, <<>>)
    /\ Idle
ScanHeadings ==
    /\ pc = "start"
    /\ out' = Call("scrape_alphaminds", <<<<inp.doc>>, "http://alpha", FullSchema, "alphamindsacademy", TRUE>>)
    /\ pc' = "done"
    /\ UNCHANGED <<inp, pages, idx, sheet, log>>
NextAlpha == ScanHeadings
SpecAlpha == InitAlpha /\ [][NextAlpha]_vars

\* C7: of a denylisted block "Testimonials" and the block "Tiny Tots ^ Ages
\* 2-3, Tue/Thu, 10:00-10:45 AM" (its title followed by an em dash), the scan
\* returns exactly one record, with AgeRange "2-3", DayOfWeek "Tuesday,
\* Thursday", Times "10:00-10:45 AM" and ClassLength "45m".
C7_TinyTotsRecord ==
    pc = "done" /\ inp.family = "tots" /\ inp.dash = "^" =>
        /\ Len(out.items) = 1
        /\ Get(out.items[1], "AgeRange") = "2-3"
        /\ Get(out.items[1], "DayOfWeek") = "Tuesday, Thursday"
        /\ Get(out.items[1], "Times") = "10:00-10:45 AM"
        /\ Get(out.items[1], "ClassLength") = "45m"
\* C8: a block whose text has the label "Age Group: 3-5" and an unrelated
\* age elsewhere ("6 years", "Grade 2") gets the age "3-5" of the label, and
\* never the unrelated one.
C8_LabelledAgeWins ==
    pc = "done" /\ inp.family = "label" =>
        /\ Len(out.items) = 1
        /\ Get(out.items[1], "AgeRange") = "3-5"
\* the age is the unrelated one wherever it stands
UnrelatedAgeWins ==
    pc = "done" /\ inp.family = "label" =>
        /\ Len(out.items) = 1
        /\ Get(out.items[1], "AgeRange") \in OtherAges

-----------------------------------------------------------------------------
(* The run-once batch: load_config, then schedule_all_jobs(run_once=True)  *)

MaxPages == 2

GoodPage     == Entry("Kids Club", "http://kids", ListOf(ShortSchema), "1d", FALSE)
RaisingPage  == Entry("aquatots", "http://aqua/bad", ListOf(ShortSchema), Missing, FALSE)
MonthlyPage  == Entry("Kids Club", "http://kids", ListOf(ShortSchema), "month", FALSE)
NoSchemaPage == Entry("Kids Club", "http://kids", NotAList, "7d", FALSE)
EmptySchemaPage == Entry("Kids Club", "http://kids", ListOf(<<>>), "7d", FALSE)
NoUrlPage    == Entry("Kids Club", "", ListOf(ShortSchema), "7d", FALSE)
NoNamePage   == Entry("", "http://kids", ListOf(ShortSchema), "7d", FALSE)
EntryKinds ==
    {GoodPage, RaisingPage, MonthlyPage, NoSchemaPage, EmptySchemaPage, NoUrlPage,
     NoNamePage, NotADict}
PageLists  == UNION {[1..n -> EntryKinds] : n \in 0..MaxPages}

\* config.json: its page list under "pages", under "websites", or under
\* "websites" beside an empty "pages"
ConfigFiles ==
    {[keys |-> ks,
      pages |-> IF ks = {"pages"} THEN ps ELSE <<>>,
      websites |-> IF "websites" \in ks THEN ps ELSE <<>>] :
        ks \in {{"pages"}, {"websites"}, {"pages", "websites"}}, ps \in PageLists}

Init ==
    /\ pc = "start"
    /\ inp \in ConfigFiles
    /\ out = [keys |-> {}, pages |-> <<>>, websites |-> <<>>]
    /\ Idle

\* main: config = load_config(...), then the first lines of schedule_all_jobs
Load ==
    /\ pc = "start"
    /\ out' = load_config(inp)
    /\ pages' = IF "pages" \in out'.keys /\ "pages" \in inp.keys THEN out'.pages
                ELSE out'.websites
    /\ IF pages' = <<>> THEN pc' = "done" /\ idx' = 0 ELSE pc' = "loop" /\ idx' = 1
    /\ UNCHANGED <<inp, sheet, log>>

\* the page of the current pass of "for page in pages"
Page == pages[idx]
PageSkipped == Falsy(GetOr(Page.url, NA)) \/ ~Page.schema.list
\* page.get on an entry that is no dict, or int() in parse_timeframe_to_seconds
PageRaises ==
    \/ ~Page.dict
    \/ ~PageSkipped /\ parse_timeframe_to_seconds(GetOr(Page.timeframe, "7d")).raised
Advance(what) ==
    /\ log' = Append(log, what)
    /\ idx' = idx + 1
    /\ pc' = IF idx = Len(pages) THEN "done" ELSE "loop"

\* one pass that ends at "continue" after "Skipping invalid page entry"
SkipPage ==
    /\ pc = "loop" /\ Page.dict /\ PageSkipped
    /\ Advance("skipped")
    /\ UNCHANGED <<inp, out, pages, sheet>>
\* what the log says of a job
Outcome(job) ==
    IF job.scraped.raised THEN "failed" ELSE IF job.appended THEN "appended" ELSE "empty"
\* one pass that calls run_scrape_job
RunPage ==
    /\ pc = "loop" /\ ~PageRaises /\ ~PageSkipped
    /\ \E net \in Nets(GetOr(Page.url, NA)), faults \in SinkCases :
         \E job \in {Call("run_scrape_job", <<Page, net, faults, sheet>>)} :
             sheet' = job.sheet /\ Advance(Outcome(job))
    /\ UNCHANGED <<inp, out, pages>>
\* one pass in which an exception leaves the loop, and schedule_all_jobs
Abort ==
    /\ pc = "loop" /\ PageRaises
    /\ pc' = "aborted"
    /\ UNCHANGED <<inp, out, pages, idx, sheet, log>>

Next == Load \/ SkipPage \/ RunPage \/ Abort
Spec == Init /\ [][Next]_vars

\* C2: whatever goes wrong with one page of a run-once batch, no error leaves
\* the loop: the batch is never aborted, and it ends with every page of the
\* list handled.
C2_EveryPageHandled ==
    /\ pc /= "aborted"
    /\ pc = "done" => Len(log) = Len(pages)

\* the entries of the list that load_config reads
Listed == IF inp.pages /= <<>> THEN inp.pages ELSE inp.websites
ValidEntry(p) ==
    /\ p.dict /\ ~Falsy(p.website) /\ ~Falsy(p.url)
    /\ p.schema.list /\ p.schema.v /= <<>>

\* C10: the validated list of load_config is the entries with a non-empty
\* website, a non-empty url and a schema that is a non-empty list, in their
\* order; every other entry is left out.
C10_OnlyValidEntriesKept ==
    pc /= "start" =>
        [k \in DOMAIN out.websites |-> [out.websites[k] EXCEPT !.timeframe = ""]]
            = [k \in DOMAIN SelectSeq(Listed, ValidEntry) |->
                  [SelectSeq(Listed, ValidEntry)[k] EXCEPT !.timeframe = ""]]

\* the entry with the defaults that both load_config and schedule_all_jobs
\* read for an absent timeframe
Filled(p) == Entry(p.website, p.url, p.schema, GetOr(p.timeframe, "7d"), p.use_js)
\* the pass over pages[k] called run_scrape_job
PassedToJob(k) == k \in DOMAIN log /\ log[k] /= "skipped"
Accepted(p) == \E j \in DOMAIN out.websites : out.websites[j] = Filled(p)

\* C22: every page entry that schedule_all_jobs passes to run_scrape_job is
\* one that load_config accepted as valid, with the defaults load_config
\* fills in, whether the file lists its pages under "pages" or under
\* "websites"; an entry load_config skipped is never run.
C22_OnlyAcceptedEntriesRun ==
    \A k \in DOMAIN pages : PassedToJob(k) => Accepted(pages[k])
\* the same of a file that lists its pages under "websites" only
AcceptedEntriesRunUnderWebsites ==
    "pages" \notin inp.keys =>
        /\ pc /= "start" => pages = out.websites
        /\ \A k \in DOMAIN pages : PassedToJob(k) => Accepted(pages[k])
\* an entry without a website name, listed under "pages", was run
SkippedEntryRun ==
    /\ inp.keys = {"pages"} /\ out.websites = <<>>
    /\ \E k \in DOMAIN pages : PassedToJob(k) /\ pages[k] = NoNamePage

-----------------------------------------------------------------------------
(* One adapter on one page                                                 *)

\* only denylisted headings
AlphaDenied ==
    Soup(<<Tag("title", <<Text("Alpha Minds")>>), Heading("h2", "Testimonials"),
           Para("Great for ages 4-6 on Monday")>>)
\* linked data and cards on one page
SoccerBoth ==
    Soup(<<LdJson(JDict("events" :> JList(<<JDict("name" :> JStr("Mini"))>>))),
           El("div", "", "card", <<Heading("h3", "Premier"), Para("Ages 3-5")>>),
           El("div", "", "card", <<Heading("h3", "Classic"), Para("Ages 6-8")>>)>>)

\* pages whose location elements hold script payload
MapsPage ==
    Soup(<<Tag("title", <<Text("Kids Club")>>), Para("Art for ages 4-6"),
           El("div", "", "map", <<Text("var schoolMapsSettings = {key: AIzaSyDn9tufwujzyp22Go}")>>)>>)
AlphaMaps ==
    Soup(<<Heading("h3", "Chess Club"), Para("Ages 5-7 Monday"),
           El("div", "", "location", <<Text("Location: wordpress/interactivity store")>>)>>)
CardMaps ==
    Soup(<<El("div", "", "card",
              <<Heading("h3", "Premier"),
                El("span", "", "venue", <<Text("schoolMapsSettings 12 Main St")>>)>>)>>)

\* one block with a time range and, in a later paragraph, a duration phrase
AlphaTimed ==
    Soup(<<Heading("h3", "Chess Club"), Para("Time: 9:30 AM - 10:15 AM"),
           Para("Duration: 30 minutes")>>)
\* one block with a time range and no duration phrase
AlphaRanged ==
    Soup(<<Heading("h3", "Chess Club"), Para("Time: 9:30 AM - 10:15 AM")>>)

\* two blocks under plain headings, the second with a day
TwoBlocks ==
    Soup(<<Heading("h2", "Gymsters"), Para("Ages 3-4"),
           Heading("h2", "Waddlers"), Para("Ages 1-2 Friday")>>)

\* one block under a placeholder title
PlaceholderTitles == {"Classes Offered", "All Age Groups"}
PlaceholderBodies == {"Come and play", "Ages 5-7", "Every Monday", "Duration: 45 minutes"}
PlaceholderPage(title, body) == Soup(<<Heading("h3", title), Para(body)>>)
PlaceholderPages ==
    {PlaceholderPage(title, body) : title \in PlaceholderTitles, body \in PlaceholderBodies}

SiteAdapters   == {"alphamindsacademy", "aquatots", "soccershots", "mygym"}
ScrapeAdapters == SiteAdapters \cup {"generic"}
ScrapeDocs ==
    {AlphaDup, AlphaLabelled, AlphaDenied, AquaLevels, SoccerLdGood, SoccerCards, SoccerBoth,
     MyGymCards, MyGymHeadings, GenericPage, GenericNoTitle, MapsPage, AlphaMaps, CardMaps,
     AlphaTimed, AlphaRanged, TwoBlocks} \cup PlaceholderPages

\* what the requests of the run yield: the page, inp.fetches times
ScrapeNet == [k \in 1..inp.fetches |-> inp.doc]

InitScrape ==
    /\ pc = "start"
    /\ inp \in [adapter : ScrapeAdapters, doc : ScrapeDocs, fetches : 0..MaxFetches]
    /\ out = Returned(<<>>, <<>>)
    /\ Idle
Scrape ==
    /\ pc = "start"
    /\ out' = CallScraper(inp.adapter, ScrapeNet, "http://site", FullSchema, inp.adapter, TRUE)
    /\ pc' = "done"
    /\ UNCHANGED <<inp, pages, idx, sheet, log>>
NextScrape == Scrape
SpecScrape == InitScrape /\ [][NextScrape]_vars

\* the headings of a page
HeadingPaths(soup) ==
    SelectSeq(DescPaths(soup, <<>>), LAMBDA q : NodeAt(soup, q).name \in HeadingTags)
\* the candidates of the linked data of a page
LdOf(soup) == LdCandidatesAll(_extract_jsonld_objects(soup))
\* some strategy of the adapter's own yields a record on the page
OwnYield(adapter, soup) ==
    CASE adapter = "aquatots" ->
           Call("select", <<soup, {<<"", "swim-level-detail">>}>>) /= <<>>
      [] adapter = "alphamindsacademy" ->
           AlphaHeadings(soup, HeadingPaths(soup), "http://site", FullSchema, adapter) /= <<>>
      [] adapter = "soccershots" ->
           LdOf(soup) /= <<>> \/ FirstSelected(soup, SOCCER_SELECTORS) /= <<>>
      [] adapter = "mygym" ->
           Call("select", <<soup, MYGYM_SELECTORS>>) /= <<>> \/ HeadingPaths(soup) /= <<>>
      [] OTHER -> FALSE
\* what the generic adapter returns for the page at the next request
GenericNext ==
    Call("scrape_generic", <<Tail(ScrapeNet), "http://site", FullSchema, inp.adapter, TRUE>>)

\* C11: on non-empty markup a site adapter whose own strategies yield no
\* record returns what the generic adapter returns for the page, not an empty
\* list; and a strategy that yields records ends the adapter: the linked
\* data wins over the cards, and the generic adapter is not tried.
C11_GenericFallback ==
    pc = "done" /\ inp.adapter \in SiteAdapters /\ inp.fetches > 0 /\ ~out.raised =>
        IF OwnYield(inp.adapter, inp.doc)
        THEN /\ out.items /= <<>>
             /\ Len(out.calls) = 1
             /\ inp.adapter = "soccershots" /\ LdOf(inp.doc) /= <<>>
                    => Len(out.items) = Len(LdOf(inp.doc))
        ELSE out.items = GenericNext.items
\* the same of the adapters other than scrape_alphaminds
FallbackButAlpha ==
    pc = "done" /\ inp.adapter \in SiteAdapters \ {"alphamindsacademy"} /\ inp.fetches > 0
        /\ ~out.raised =>
        IF OwnYield(inp.adapter, inp.doc)
        THEN /\ out.items /= <<>>
             /\ Len(out.calls) = 1
             /\ inp.adapter = "soccershots" /\ LdOf(inp.doc) /= <<>>
                    => Len(out.items) = Len(LdOf(inp.doc))
        ELSE out.items = GenericNext.items /\ Len(out.calls) = 2

\* the tokens that mark a captured script payload
TechnicalTokens == {"schoolMapsSettings", "wordpress/interactivity", "AIzaSyDn9tufwujzyp22Go"}
Technical(loc) == \E t \in TechnicalTokens : Contains(loc, t)
\* the text the class/id heuristics capture on the page, if any
CapturedLocation == AddressBySelectors(inp.doc, ADDRESS_SELECTORS, NA, TRUE)

\* C16: no record of any adapter has a ClassLocation that contains a
\* technical token.
C16_NoTechnicalLocation ==
    pc = "done" =>
        \A k \in DOMAIN out.items : ~Technical(Get(out.items[k], "ClassLocation"))
\* the same of the records of scrape_alphaminds, which filters the location
AlphaLocationFiltered ==
    pc = "done" /\ inp.adapter = "alphamindsacademy" =>
        \A k \in DOMAIN out.items : ~Technical(Get(out.items[k], "ClassLocation"))
\* scrape_alphaminds returned a record of a block whose location was a payload
AlphaPayloadDropped ==
    /\ pc = "done" /\ inp.adapter = "alphamindsacademy" /\ inp.doc = AlphaMaps
    /\ Len(out.items) = 1 /\ Get(out.items[1], "ClassLocation") = NA
    /\ Technical(CapturedLocation)

\* the first duration phrase in the text of the page, if any
PagePhrase == Call("Search", <<DURATION_REGEX, Call("get_text", <<inp.doc>>), TRUE>>)
PhraseText == strip(Group0(Call("get_text", <<inp.doc>>), PagePhrase))

\* C18: in every adapter, a record whose block's text holds an explicit
\* duration phrase has that phrase as ClassLength, even if a time range is
\* present too; the duration derived from the time range is the ClassLength
\* only when the text holds no duration phrase.
C18_PhraseOverDerived ==
    pc = "done" =>
        \A k \in DOMAIN out.items :
            LET item == out.items[k]
            IN  IF PagePhrase.found
                THEN Get(item, "ClassLength") = PhraseText
                ELSE Get(item, "ClassLength") \in
                         {NA, Call("parse_time_range_to_duration", <<Get(item, "Times")>>)}
\* the same of the adapters that take the length from extract_size_length_address
PhraseOverDerivedButAlpha ==
    pc = "done" /\ inp.adapter \notin {"alphamindsacademy", "aquatots"}
        /\ LdOf(inp.doc) = <<>> =>
        \A k \in DOMAIN out.items :
            LET item == out.items[k]
            IN  IF PagePhrase.found
                THEN Get(item, "ClassLength") = PhraseText
                ELSE Get(item, "ClassLength") \in
                         {NA, Call("parse_time_range_to_duration", <<Get(item, "Times")>>)}
\* scrape_alphaminds kept the derived duration of a block that states one
AlphaDerivedKept ==
    /\ pc = "done" /\ inp.adapter = "alphamindsacademy" /\ inp.doc = AlphaTimed
    /\ Len(out.items) = 1 /\ Get(out.items[1], "ClassLength") = "45m"

\* the adapter scans the page heading by heading
HeadingScan ==
    \/ inp.adapter = "alphamindsacademy"
    \/ /\ inp.adapter = "mygym"
       /\ Call("select", <<inp.doc, MYGYM_SELECTORS>>) = <<>>
       /\ HeadingPaths(inp.doc) /= <<>>
\* the texts of the tags from the first heading or stop marker among sibs on
RECURSIVE LaterTexts(_)
LaterTexts(sibs) ==
    IF sibs = <<>> THEN {}
    ELSE IF Head(sibs).name \in HeadingTags
            \/ (Head(sibs).name = "div" /\ Call("HasRegisterLink", <<Head(sibs)>>))
         THEN {Call("get_text", <<sibs[k]>>) : k \in DOMAIN sibs} \ {""}
         ELSE LaterTexts(Tail(sibs))
\* the siblings of the heading at path up to the next heading or stop marker
RECURSIVE OwnTexts(_)
OwnTexts(sibs) ==
    IF sibs = <<>> THEN {}
    ELSE IF Head(sibs).name \in HeadingTags
            \/ (Head(sibs).name = "div" /\ Call("HasRegisterLink", <<Head(sibs)>>))
         THEN {}
         ELSE {Call("get_text", <<Head(sibs)>>)} \cup OwnTexts(Tail(sibs))
\* the record took nothing from the next heading of the heading at path on
OwnBlockOnly(item, path) ==
    LET sibs == find_next_siblings(inp.doc, path)
        own  == {Call("get_text", <<NodeAt(inp.doc, path)>>)} \cup OwnTexts(sibs)
    IN  /\ \A t \in LaterTexts(sibs) : ~Contains(Get(item, "ClassDescription"), t)
        /\ \A f \in {"AgeRange", "DayOfWeek"} :
               Get(item, f) = NA \/ \E t \in own : Contains(t, Get(item, f))

\* C19: in a heading/sibling scan (scrape_alphaminds, the heading branch of
\* scrape_mygym) the record of a heading is made of the siblings after this
\* heading and before the next heading or stop marker: its description
\* holds no text of the next heading or of anything after it, and its age
\* and day are found in its own block.
C19_BlockEndsAtNextHeading ==
    pc = "done" /\ HeadingScan =>
        \A k \in DOMAIN out.items :
            \E j \in DOMAIN HeadingPaths(inp.doc) :
                LET path == HeadingPaths(inp.doc)[j]
                IN  /\ Get(out.items[k], "ClassTitle")
                           = ensure_field(Call("get_text", <<NodeAt(inp.doc, path)>>))
                    /\ OwnBlockOnly(out.items[k], path)
\* the same of scrape_alphaminds, whose loop breaks at the next heading
AlphaBlockEndsAtNextHeading ==
    pc = "done" /\ inp.adapter = "alphamindsacademy" =>
        \A k \in DOMAIN out.items :
            \E j \in DOMAIN HeadingPaths(inp.doc) :
                LET path == HeadingPaths(inp.doc)[j]
                IN  /\ Get(out.items[k], "ClassTitle")
                           = ensure_field(Call("get_text", <<NodeAt(inp.doc, path)>>))
                    /\ OwnBlockOnly(out.items[k], path)
\* scrape_mygym gave the first heading the day of the second block
MyGymNextBlockTaken ==
    /\ pc = "done" /\ inp.adapter = "mygym" /\ inp.doc = TwoBlocks
    /\ Len(out.items) = 2 /\ Get(out.items[1], "DayOfWeek") = "Friday"
    /\ Contains(Get(out.items[1], "ClassDescription"), "Waddlers")

\* the row scrape_alphaminds builds for the heading at path
RowOf(path) ==
    Call("AlphaRow", <<inp.doc, NodeAt(inp.doc, path),
                       SiblingLoop(find_next_siblings(inp.doc, path), HeadingStart, inp.doc),
                       "http://site", inp.adapter>>)
\* age, duration or day of the row resolved to a value
Resolved(row) == row.AgeRange /= NA \/ row.ClassLength /= NA \/ row.DayOfWeek /= NA
Emitted(title) == \E k \in DOMAIN out.items : Get(out.items[k], "ClassTitle") = title

\* C20: scrape_alphaminds leaves a heading with a placeholder title
\* ("Classes Offered", "All Age Groups") out of its output only if age,
\* duration and day are all "N/A"; when one of the three resolves to a
\* value, the record of the placeholder heading is emitted.
C20_PlaceholderKeptWithData ==
    pc = "done" /\ inp.adapter = "alphamindsacademy" /\ inp.fetches > 0 =>
        \A j \in DOMAIN HeadingPaths(inp.doc) :
            LET path  == HeadingPaths(inp.doc)[j]
                title == Call("get_text", <<NodeAt(inp.doc, path)>>)
            IN  title \in PlaceholderTitles => (Emitted(title) <=> Resolved(RowOf(path)))
\* the same of the placeholder "All Age Groups"
AllAgeGroupsKeptWithData ==
    pc = "done" /\ inp.adapter = "alphamindsacademy" /\ inp.fetches > 0 =>
        \A j \in DOMAIN HeadingPaths(inp.doc) :
            LET path  == HeadingPaths(inp.doc)[j]
                title == Call("get_text", <<NodeAt(inp.doc, path)>>)
            IN  title = "All Age Groups" => (Emitted(title) <=> Resolved(RowOf(path)))
\* "Classes Offered" with an age in its block gave no record
ClassesOfferedDropped ==
    /\ pc = "done" /\ inp.adapter = "alphamindsacademy" /\ inp.fetches > 0
    /\ inp.doc = PlaceholderPage("Classes Offered", "Ages 5-7")
    /\ Resolved(RowOf(<<1>>)) /\ out.items = <<>>
\* "All Age Groups" gave a record with data and none without
AllAgeGroupsBothWays ==
    /\ pc = "done" /\ inp.adapter = "alphamindsacademy" /\ inp.fetches > 0
    /\ \/ inp.doc = PlaceholderPage("All Age Groups", "Every Monday") /\ Len(out.items) = 1
       \/ inp.doc = PlaceholderPage("All Age Groups", "Come and play") /\ out.items = <<>>

\* the token holds a minute separator (H:MM, H.MM) or a meridiem
IsClock(tok) == Call("Search", <<Alt(<<ClockHM, Meridiem>>), tok, TRUE>>).found
\* the tokens of a Times value
TimeTokens(times) == IF times = NA THEN <<>> ELSE SplitLit(times, ", ")
ClockTimesOnly(item) ==
    \A j \in DOMAIN TimeTokens(Get(item, "Times")) : IsClock(TimeTokens(Get(item, "Times"))[j])

\* C24: every token of an emitted Times value is a clock time, with a minute
\* separator or a meridiem; no adapter emits a bare integer or integer range
\* (the "5-7" of an age range) as a time.
C24_TimesAreClockTimes ==
    pc = "done" => \A k \in DOMAIN out.items : ClockTimesOnly(out.items[k])
\* the same of the adapters that find the times with TIME_REGEX
TimeRegexTimesAreClockTimes ==
    pc = "done" /\ inp.adapter /= "alphamindsacademy" =>
        \A k \in DOMAIN out.items : ClockTimesOnly(out.items[k])
\* scrape_alphaminds emitted the range of an age as the time of a block
AgeRangeAsTime ==
    /\ pc = "done" /\ inp.adapter = "alphamindsacademy" /\ inp.doc = AlphaDup
    /\ Len(out.items) = 2
    /\ Get(out.items[1], "AgeRange") = "Ages 5-7" /\ Get(out.items[1], "Times") = "5-7"

-----------------------------------------------------------------------------
(* The requests of one job (SpecJob)                                       *)

\* C21: one execution of run_scrape_job invokes fetch_html at most once,
\* whatever path the adapter takes through its strategies, the fall-through
\* to the generic adapter included.
C21_FetchAtMostOnce ==
    pc = "done" => Len(out.scraped.calls) <= 1
\* a job fetches twice exactly when a site adapter that found non-empty
\* markup and no record of its own hands the page to scrape_generic
FetchTwiceOnFallThrough ==
    pc = "done" /\ ~out.scraped.raised =>
        /\ Len(out.scraped.calls) <= 2
        /\ Len(out.scraped.calls) = 2 =>
               /\ out.scraper \in {"aquatots", "soccershots", "mygym"}
               /\ inp.net /= <<>>
               /\ ~OwnYield(out.scraper, fetch_html(inp.net))
\* the job of a site adapter ended with the rows of a second request
FetchedTwice ==
    /\ pc = "done" /\ out.scraper = "aquatots" /\ Len(out.scraped.calls) = 2
    /\ Len(inp.net) = 2 /\ out.items /= <<>>

-----------------------------------------------------------------------------
(* The sink: calls of GoogleSheetLoader.append_rows on one worksheet       *)

\* how many calls of append_rows one run makes
MaxAppends == 3
SinkHeaders == {ShortSchema, <<"ClassTitle">>}
ChessRow == <<<<"ClassTitle", "Chess Club">>, <<"Price", "N/A">>, <<"AgeRange", "Ages 5-7">>>>
\* a record without the fields Price and AgeRange
ArtRow   == <<<<"ClassTitle", "Art">>>>
RowBatches == {<<ChessRow>>, <<ArtRow>>, <<ChessRow, ArtRow>>}

InitSink ==
    /\ pc = "start"
    /\ inp \in [header : SinkHeaders]
    /\ out = <<>>
    /\ pages = <<>> /\ idx = 0 /\ sheet = <<>> /\ log = <<>>
\* loader.append_rows(rows, header=inp.header), the calls to the worksheet
\* raising as faults says
AppendRows ==
    /\ pc = "start"
    /\ Len(log) < MaxAppends
    /\ \E rows \in RowBatches, faults \in SinkFaults :
         /\ sheet' = Call("append_rows", <<sheet, rows, inp.header, faults>>)
         /\ log' = Append(log, [rows |-> rows, faults |-> faults])
    /\ UNCHANGED <<pc, inp, out, pages, idx>>
NextSink == AppendRows
SpecSink == InitSink /\ [][NextSink]_vars

\* the cells of the rows of one call, in header order
CellsOf(rows, header) ==
    [r \in DOMAIN rows |-> [k \in DOMAIN header |-> Get(rows[r], header[k])]]
RECURSIVE DataRows(_, _)
\* the data rows of the calls, in call order
DataRows(calls, header) ==
    IF calls = <<>> THEN <<>>
    ELSE CellsOf(Head(calls).rows, header) \o DataRows(Tail(calls), header)

\* C13: after any calls of append_rows with one header on a sheet that was
\* empty, also when reading row 1 or inserting the header raised, the sheet
\* is the header, once, as row 1, and under it the data rows of the calls in
\* call order.
C13_StableHeader ==
    log /= <<>> /\ (\A k \in DOMAIN log : ~log[k].faults.append)
        => sheet = <<inp.header>> \o DataRows(log, inp.header)
\* the same of the calls in which the worksheet raised nothing
StableHeaderNoFault ==
    log /= <<>> /\ (\A k \in DOMAIN log : log[k].faults = NoFaults)
        => sheet = <<inp.header>> \o DataRows(log, inp.header)

-----------------------------------------------------------------------------
(* extract_age_day_time_from_text on texts that mention ages               *)

\* the mentions of an age, by kind
GradeMentions   == {"Grade 2", "PreK 3"}
RangeMentions   == {"Ages 3-5"}
UnitMentions    == {"6 years", "18 months"}
KeywordMentions == {"infant", "toddler", "preschool", "teen", "adult"}
AgeMentions == GradeMentions \cup RangeMentions \cup UnitMentions \cup KeywordMentions
\* the rank of a mention's kind, the highest first in the priority
KindRank(m) ==
    IF m \in GradeMentions THEN 4
    ELSE IF m \in RangeMentions THEN 3
    ELSE IF m \in UnitMentions THEN 2
    ELSE 1
\* one mention, or two of different kinds, the mention a before the mention b
AgeTexts ==
    [a : AgeMentions, b : {""}]
        \cup {t \in [a : AgeMentions, b : AgeMentions] : KindRank(t.a) /= KindRank(t.b)}
AgeText(t) ==
    IF t.b = "" THEN "Join our " \o t.a \o " class"
    ELSE "For " \o t.a \o " then " \o t.b

InitAge ==
    /\ pc = "start"
    /\ inp \in AgeTexts
    /\ out = [age |-> NA, days |-> NA, times |-> NA]
    /\ Idle
Extract ==
    /\ pc = "start"
    /\ out' = Call("extract_age_day_time_from_text", <<AgeText(inp)>>)
    /\ pc' = "done"
    /\ UNCHANGED <<inp, pages, idx, sheet, log>>
NextAge == Extract
SpecAge == InitAge /\ [][NextAge]_vars

\* C14: of two mentions of different kinds the age is the mention of the
\* kind that is higher in the priority grade > range > unit > keyword, also
\* when the other one stands first in the text.
C14_AgePriority ==
    pc = "done" /\ inp.b /= "" =>
        out.age = (IF KindRank(inp.a) > KindRank(inp.b) THEN inp.a ELSE inp.b)
\* the age is the first mention in the text that is no keyword
FirstMentionWins ==
    pc = "done" /\ inp.b /= "" =>
        out.age = (IF inp.a \in KeywordMentions THEN inp.b ELSE inp.a)

\* C15: a text whose only age signal is a category keyword has that keyword
\* as its age.
C15_KeywordAge ==
    pc = "done" /\ inp.b = "" /\ inp.a \in KeywordMentions => out.age = inp.a
\* no keyword is ever the age
KeywordNeverAge == pc = "done" => out.age \notin KeywordMentions

-----------------------------------------------------------------------------
(* extract_size_length_address on the places a page can hold an address    *)

\* what the scoped node holds: no node is passed, a node without an address,
\* an address tag with text, an address tag without text beside a venue
\* element, a venue element
ScopedKinds == {"none", "bare", "addr", "addr_empty", "cls"}
\* the location of the page's linked data: none, an object with address
\* parts, a text, an object without address parts
LinkedKinds == {"none", "dict", "str", "empty"}
AddressCases ==
    [scoped : ScopedKinds, ld : LinkedKinds, gaddr : BOOLEAN, gcls : BOOLEAN]

VenueEl == El("span", "", "venue", <<Text("Node Hall")>>)
ScopedNode(t) ==
    CASE t.scoped = "none" -> NoNode
      [] t.scoped = "bare" -> El("div", "", "card", <<Heading("h3", "Premier")>>)
      [] t.scoped = "addr" -> El("div", "", "card", <<Heading("h3", "Premier"),
                                                      Tag("address", <<Text("1 Node St")>>)>>)
      [] t.scoped = "addr_empty" -> El("div", "", "card", <<Heading("h3", "Premier"),
                                                            Tag("address", <<>>), VenueEl>>)
      [] OTHER -> El("div", "", "card", <<Heading("h3", "Premier"), VenueEl>>)
LinkedScript(t) ==
    CASE t.ld = "dict" ->
           <<LdJson(JDict("location" :> JDict(("streetAddress" :> JStr("5 Data Rd"))
                                              @@ ("addressLocality" :> JStr("Hoboken")))))>>
      [] t.ld = "str" -> <<LdJson(JDict("venue" :> JStr("Data Center")))>>
      [] t.ld = "empty" -> <<LdJson(JDict("location" :> JDict("geo" :> JStr("40.7"))))>>
      [] OTHER -> <<>>
AddressPage(t) ==
    Soup((IF t.scoped = "none" THEN <<>> ELSE <<ScopedNode(t)>>)
         \o LinkedScript(t)
         \o (IF t.gaddr THEN <<Tag("address", <<Text("9 Page Ave")>>)>> ELSE <<>>)
         \o (IF t.gcls THEN <<El("p", "", "location-name", <<Text("Page Hall")>>)>> ELSE <<>>))

InitAddress ==
    /\ pc = "start"
    /\ inp \in AddressCases
    /\ out = [size |-> NA, length |-> NA, address |-> NA]
    /\ Idle
Locate ==
    /\ pc = "start"
    /\ out' = Call("extract_size_length_address", <<"", ScopedNode(inp), AddressPage(inp)>>)
    /\ pc' = "done"
    /\ UNCHANGED <<inp, pages, idx, sheet, log>>
NextAddress == Locate
SpecAddress == InitAddress /\ [][NextAddress]_vars

LinkedText(t) ==
    IF t.ld = "dict" THEN "5 Data Rd, Hoboken" ELSE IF t.ld = "str" THEN "Data Center" ELSE NA

\* C17 as stated: the address is that of the node's address tag, else of the
\* node's class/id heuristics, else of the document's address tag, else of
\* the document's class/id heuristics, and only then that of the linked data
\* (nodes whose address tag has no text aside).
C17_DocumentBeforeLinked ==
    pc = "done" /\ inp.scoped /= "addr_empty" =>
        out.address = (IF inp.scoped = "addr" THEN "1 Node St"
                       ELSE IF inp.scoped = "cls" THEN "Node Hall"
                       ELSE IF inp.gaddr THEN "9 Page Ave"
                       ELSE IF inp.gcls THEN "Page Hall"
                       ELSE LinkedText(inp))
\* C17: the address is that of the node's address tag, else (the node having
\* no address tag) of the node's class/id heuristics; when these give no
\* text, that of the linked data; when that gives none, that of the first
\* address tag of the document, else (the document having no address tag) of
\* the document's class/id heuristics.
C17_LinkedBeforeDocument ==
    pc = "done" =>
        out.address = (IF inp.scoped = "addr" THEN "1 Node St"
                       ELSE IF inp.scoped = "cls" THEN "Node Hall"
                       ELSE IF LinkedText(inp) /= NA THEN LinkedText(inp)
                       ELSE IF inp.scoped = "addr_empty" THEN NA
                       ELSE IF inp.gaddr THEN "9 Page Ave"
                       ELSE IF inp.gcls THEN "Page Hall"
                       ELSE NA)
\* the node gives nothing, the page has an address tag and linked data with
\* a location, and the address is that of the linked data
C17_LinkedWins ==
    /\ pc = "done" /\ inp.scoped = "bare" /\ inp.gaddr /\ inp.ld = "dict"
    /\ out.address = "5 Data Rd, Hoboken"

-----------------------------------------------------------------------------
(* parse_timeframe_to_seconds on the timeframes a page entry can hold     *)

TfPads     == {"", " "}
TfSigns    == {"", "-"}
TfNumbers  == {"", "0", "7", "30"}
TfSuffixes == {"", "m", "h", "d", "D", "w", "min", "month"}
Timeframes == [pad : TfPads, sign : TfSigns, num : TfNumbers, suffix : TfSuffixes]
TfText(t)  == t.pad \o t.sign \o t.num \o t.suffix

InitTimeframe ==
    /\ pc = "start"
    /\ inp \in Timeframes
    /\ out = [raised |-> FALSE, seconds |-> 0]
    /\ Idle
ParseTimeframe ==
    /\ pc = "start"
    /\ out' = parse_timeframe_to_seconds(TfText(inp))
    /\ pc' = "done"
    /\ UNCHANGED <<inp, pages, idx, sheet, log>>
NextTimeframe == ParseTimeframe
SpecTimeframe == InitTimeframe /\ [][NextTimeframe]_vars

SecondsPerDay == 86400
\* the seconds of the unit letters
UnitSeconds(u) == CASE u = "m" -> 60 [] u = "h" -> 3600 [] OTHER -> SecondsPerDay
\* "<N>m", "<N>h", "<N>d" or a bare integer N, in any case
Numbered(t) == t.sign = "" /\ t.num /= "" /\ lower(t.suffix) \in {"", "m", "h", "d"}
\* the seconds the timeframe stands for
SecondsOf(t) ==
    IF Numbered(t) THEN ToInt(t.num) * UnitSeconds(lower(t.suffix)) ELSE 7 * SecondsPerDay

\* C23: parse_timeframe_to_seconds never raises and returns a positive
\* number of seconds: N*60, N*3600, N*86400 for "<N>m", "<N>h", "<N>d",
\* N*86400 for a bare integer N, and 604800 for every other text, those that
\* merely end in m, h or d ("month") included.
C23_TimeframeSeconds ==
    pc = "done" =>
        /\ ~out.raised
        /\ out.seconds > 0
        /\ out.seconds = SecondsOf(inp)
\* the same of the positive counts with a unit or none, and of the texts
\* that do not end in m, h or d
TimeframeOfPositiveCount ==
    pc = "done" /\ (IF Numbered(inp) THEN ToInt(inp.num) > 0
                    ELSE inp.sign = "" /\ inp.suffix \in {"w", "min"}) =>
        /\ ~out.raised
        /\ out.seconds > 0
        /\ out.seconds = SecondsOf(inp)
\* "month" raised
MonthRaised ==
    pc = "done" /\ TfText(inp) = "month" /\ out.raised
\* a count that is not positive gave seconds that are not positive
NoPositiveSeconds ==
    pc = "done" /\ ~out.raised /\ out.seconds <= 0

-----------------------------------------------------------------------------
(* For_Airtable.py: push_to_gsheet on the first worksheet of the sheet     *)

\* What the calls of one push_to_gsheet do: the opening of the worksheet
\* (credentials, authorize, open), sheet.clear() and sheet.update() each
\* either work or raise; a call that raises leaves the worksheet as it is.
PushFaults   == [open : BOOLEAN, clear : BOOLEAN, update : BOOLEAN]
NoPushFaults == [open |-> FALSE, clear |-> FALSE, update |-> FALSE]

\* [df.columns.values.tolist()] + df.values.tolist()
FrameRows(df) == <<df.columns>> \o df.values

\* push_to_gsheet(df, sheet_name): the worksheet after the call; the except
\* clause prints the error and returns
push_to_gsheet(sh, df, faults) ==
    IF faults.open THEN sh
    ELSE IF faults.clear THEN sh
    ELSE IF faults.update THEN <<>>
    ELSE FrameRows(df)

MaxPushes == 2
FrameColumns == <<"Program", "Age", "Days", "Times", "Description">>
GymFrame ==
    [columns |-> FrameColumns,
     values  |-> <<<<"Tiny Tykes", "", "", "", "45 minutes">>>>]
SwimFrame ==
    [columns |-> FrameColumns,
     values  |-> << <<"Level 1", "2-3", "", "", "With a parent">>,
                    <<"Level 2", "3-4", "", "", "Floating">> >>]
\* run_scraper pushes only a frame that is not empty
Frames == {GymFrame, SwimFrame}
\* the worksheet before the first call: empty, or the rows of an earlier run
PriorSheets == {<<>>, FrameRows(GymFrame)}

InitPush ==
    /\ pc = "ready"
    /\ inp \in [before : PriorSheets]
    /\ out = [pushed |-> FALSE]
    /\ pages = <<>> /\ idx = 0 /\ log = <<>>
    /\ sheet = inp.before
\* run_scraper with a frame that is not empty: one call of push_to_gsheet
Push ==
    /\ pc = "ready" /\ Len(log) < MaxPushes
    /\ \E df \in Frames, faults \in PushFaults :
         /\ sheet' = push_to_gsheet(sheet, df, faults)
         /\ log' = Append(log, [df |-> df, faults |-> faults, before |-> sheet])
         /\ out' = [pushed |-> faults = NoPushFaults]
    /\ UNCHANGED <<pc, inp, pages, idx>>
NextPush == Push
SpecPush == InitPush /\ [][NextPush]_vars

LastPush == log[Len(log)]

\* C25: after a call of push_to_gsheet the sheet holds exactly the header
\* and the rows of the data frame, or, when a step of the upload failed, the
\* content it had before the call.
C25_PushAllOrNothing ==
    log /= <<>> =>
        sheet = IF LastPush.faults = NoPushFaults THEN FrameRows(LastPush.df)
                ELSE LastPush.before
\* the same of the calls in which sheet.update() is not the step that fails
PushAllOrNothingButUpdate ==
    log /= <<>> /\ (LastPush.faults.open \/ LastPush.faults.clear \/ ~LastPush.faults.update) =>
        sheet = IF LastPush.faults = NoPushFaults THEN FrameRows(LastPush.df)
                ELSE LastPush.before
\* the update failed after the clear: the rows of the sheet are lost
ClearedAndLost ==
    /\ log /= <<>> /\ LastPush.before /= <<>>
    /\ ~LastPush.faults.open /\ ~LastPush.faults.clear /\ LastPush.faults.update
    /\ sheet = <<>>

====
